---- MODULE Spec2Model ----
(***************************************************************************)
(* A model of the lightning-detection service (src/src/lightning_service)  *)
(* and of the Singapore geocoder (src/src/singapore_geocoder).             *)
(*                                                                         *)
(* JSON values are records tagged by t: a key that is absent from a dict   *)
(* is Missing, JSON null (Python None) is JNull.  Coordinates are integers *)
(* in micro-degrees (1.16 degrees is 1160000).  Strings that the code      *)
(* orders (timestamps) carry their lexicographic rank in StrRank.          *)
(***************************************************************************)
EXTENDS Integers, Sequences, FiniteSets, TLC

VARIABLES
    transport,      \* outcome of the HTTP GET of the weather API
    api_response,   \* the JSON body of the weather API (the parse input)
    called,         \* which lightning entry point has run
    raw_data,       \* result of fetch_lightning_data
    parsed,         \* result of parse_lightning_response
    coordinates,    \* result of extract_coordinates
    valid_count,    \* the diagnostic within-bounds tally of extract_coordinates
    summary,        \* result of get_lightning_summary
    http_gets,      \* number of requests.get calls issued by the lightning service
    g_query,        \* the argument of the geocoding call
    g_net,          \* what the OneMap endpoint does when it is called
    g_called,       \* which geocoder entry point has run
    g_out,          \* what the geocoding call did and returned
    b_point,        \* a (latitude, longitude) pair of numeric strings
    b_called,       \* which bounds check has run on b_point
    b_out,          \* the result of the bounds check
    t_in,           \* batch_geocode: the queries, each with what OneMap does for it
    t_status,       \* batch_geocode: "idle", "running", "done" or "raised"
    t_results,      \* batch_geocode: the results list built so far
    t_df,           \* batch_geocode: the returned frame, or the exception
    t_sleeps,       \* batch_geocode: number of time.sleep(delay) calls
    t_gets,         \* batch_geocode: number of requests.get calls
    w_cache,        \* webapp: the lightning_cache dictionary
    w_good,         \* webapp: data and map of the latest successful fetch
    w_response,     \* webapp: the response to the latest request
    w_requests,     \* webapp: number of requests served
    clock           \* number of datetime.now() readings taken so far

lvars == <<transport, api_response, called, raw_data, parsed, coordinates,
           valid_count, summary, http_gets>>
gvars == <<g_query, g_net, g_called, g_out>>
bvars == <<b_point, b_called, b_out>>
tvars == <<t_in, t_status, t_results, t_df, t_sleeps, t_gets>>
wvars == <<w_cache, w_good, w_response, w_requests>>
vars == <<lvars, gvars, bvars, tvars, wvars, clock>>

----------------------------------------------------------------------------
(* Bounds of the model *)

\* periods in one weather batch
MaxPeriods == 2
\* readings in one weather batch, over all of its periods
MaxReadings == 2
\* characters in a geocoding query
MaxQueryLen == 8
\* queries in one batch_geocode call
MaxBatch == 3
\* requests served by the web application
MaxRequests == 3

----------------------------------------------------------------------------
(* JSON values and Python idioms *)

Missing == [t |-> "missing"]
JNull == [t |-> "null"]
JStr(s) == [t |-> "str", s |-> s]
JNum(n) == [t |-> "num", n |-> n]
JList(items) == [t |-> "list", items |-> items]
JBool(b) == [t |-> "bool", b |-> b]

\* d.get(key, default) on the value v stored under key (Missing when absent)
Get(v, default) == IF v = Missing THEN default ELSE v

\* results of a call: a value, the value None, or an exception that escapes
NotCalled == [k |-> "not_called"]
None == [k |-> "none"]
Raise(exc) == [k |-> "raise", exc |-> exc]
Ok(v) == [k |-> "ok", v |-> v]

\* the numeric strings of the model and the float each one denotes
FloatOfStr ==
    ("1.3521" :> 1352100) @@ ("103.8198" :> 103819800) @@
    ("40.7128" :> 40712800) @@ ("-74.0060" :> -74006000) @@
    ("1.15" :> 1150000) @@ ("1.16" :> 1160000) @@ ("1.17" :> 1170000) @@
    ("1.47" :> 1470000) @@ ("1.48" :> 1480000) @@ ("1.49" :> 1490000) @@
    ("103.58" :> 103580000) @@ ("103.59" :> 103590000) @@
    ("103.60" :> 103600000) @@ ("104.03" :> 104030000) @@
    ("104.04" :> 104040000) @@ ("104.05" :> 104050000) @@
    ("1.304167" :> 1304167) @@ ("103.833611" :> 103833611) @@
    ("1.283611" :> 1283611) @@ ("103.859722" :> 103859722) @@
    ("1.281528" :> 1281528) @@ ("103.865556" :> 103865556) @@
    ("1.403611" :> 1403611) @@ ("103.791944" :> 103791944) @@
    ("1.246389" :> 1246389) @@ ("103.822778" :> 103822778)

\* float(v): ValueError on a non-numeric string, TypeError on None, a list or a dict
float(v) ==
    CASE v.t = "num" -> Ok(v.n)
      [] v.t = "str" -> IF v.s \in DOMAIN FloatOfStr
                        THEN Ok(FloatOfStr[v.s])
                        ELSE Raise("ValueError")
      [] OTHER -> Raise("TypeError")

\* the instants the clock shows, in order
Instants ==
    <<"2024-01-15T12:00:00", "2024-01-15T12:00:01", "2024-01-15T12:00:02",
      "2024-01-15T12:00:03", "2024-01-15T12:00:04", "2024-01-15T12:00:05",
      "2024-01-15T12:00:06", "2024-01-15T12:00:07", "2024-01-15T12:00:08",
      "2024-01-15T12:00:09">>

\* datetime.now().isoformat() within the call that is running
Now == IF clock < Len(Instants) THEN Instants[clock + 1] ELSE Instants[Len(Instants)]

\* the call that read the clock has ended
Tick == clock' = clock + 1

\* timestamps of the model, in lexicographic (Python str) order
T0 == "2024-01-15T09:00:00+08:00"
T1 == "2024-01-15T09:30:00+08:00"
T2 == "2024-01-15T10:00:00+08:00"
StrRank == ("" :> 0) @@ (T0 :> 1) @@ (T1 :> 2) @@ (T2 :> 3)
StrLeq(a, b) == StrRank[a] <= StrRank[b]

\* bool(v) of a str-or-None value
Truthy(v) ==
    CASE v.t = "null" -> FALSE
      [] v.t = "str" -> v.s # ""
      [] v.t = "num" -> v.n # 0
      [] v.t = "list" -> v.items # <<>>
      [] v.t = "bool" -> v.b
      [] OTHER -> TRUE

\* min taken as the first element (correct only for sorted input)
min_first(strs) == strs[1]

\* min() and max() of a non-empty list of strings
min(strs) == CHOOSE a \in {strs[i] : i \in DOMAIN strs} :
                 \A b \in {strs[i] : i \in DOMAIN strs} : StrLeq(a, b)
max(strs) == CHOOSE a \in {strs[i] : i \in DOMAIN strs} :
                 \A b \in {strs[i] : i \in DOMAIN strs} : StrLeq(b, a)

----------------------------------------------------------------------------
(* LightningService *)

singapore_bounds ==
    [lat_min |-> 950000, lat_max |-> 1750000,
     lon_min |-> 103270000, lon_max |-> 104520000,
     center_lat |-> 1352100, center_lon |-> 103819800]

EmptyDict == [t |-> "obj", latitude |-> Missing, longitude |-> Missing]
EmptyItem == [t |-> "obj", isStationData |-> Missing, type |-> Missing,
              readings |-> Missing]
EmptyData == [t |-> "obj", paginationToken |-> Missing, records |-> Missing]

\* CoercionCaught with "except ValueError" alone
CoercionCaught_ValueErrorOnly == {"ValueError"}

\* the exceptions the except clause around the two float() calls catches
CoercionCaught == {"ValueError", "TypeError"}

\* the except clause around the two float() calls: continue, or the exception
Caught(failed) ==
    IF failed.exc \in CoercionCaught THEN [k |-> "skip"] ELSE failed

\* ReadingData with the period timestamp standing in for an absent reading one
ReadingData_PeriodStampDefault(reading, latitude, longitude, record_datetime) ==
    [latitude |-> latitude,
     longitude |-> longitude,
     type |-> Get(reading.type, JStr("Unknown")),
     description |-> Get(reading.text, JStr("Unknown")),
     datetime |-> Get(reading.datetime, record_datetime),
     record_datetime |-> record_datetime]

\* the reading_data dict of a reading whose coordinates were coerced
ReadingData(reading, latitude, longitude, record_datetime) ==
    [latitude |-> latitude,
     longitude |-> longitude,
     type |-> Get(reading.type, JStr("Unknown")),
     description |-> Get(reading.text, JStr("Unknown")),
     datetime |-> Get(reading.datetime, JNull),
     record_datetime |-> record_datetime]

\* the try block, given the results lat and lon of the two float() calls
Coerce(reading, lat, lon, record_datetime) ==
    IF lat.k = "raise" THEN Caught(lat)
    ELSE IF lon.k = "raise" THEN Caught(lon)
    ELSE Ok(ReadingData(reading, lat.v, lon.v, record_datetime))

\* ParseLocation with location.get('latitude') and location.get('longitude')
ParseLocation_NoDefault(reading, location, record_datetime) ==
    IF location.t # "obj" THEN Raise("AttributeError")
    ELSE Coerce(reading,
                float(Get(location.latitude, JNull)),
                float(Get(location.longitude, JNull)),
                record_datetime)

\* location.get('latitude', 0) and location.get('longitude', 0) on the location
ParseLocation(reading, location, record_datetime) ==
    IF location.t # "obj" THEN Raise("AttributeError")
    ELSE Coerce(reading,
                float(Get(location.latitude, JNum(0))),
                float(Get(location.longitude, JNum(0))),
                record_datetime)

\* one pass of the body of "for reading in readings"
ParseReading(reading, record_datetime) ==
    IF reading.t # "obj" THEN Raise("AttributeError")
    ELSE ParseLocation(reading, Get(reading.location, EmptyDict), record_datetime)

\* AfterReading with the count taken before the coercion: skipped readings count
AfterReading_CountsSkipped(st, r) ==
    IF r.k = "skip" THEN [st EXCEPT !.total_strikes = @ + 1]
    ELSE [readings |-> Append(st.readings, r.v),
          total_strikes |-> st.total_strikes + 1]

\* the end of one pass of "for reading in readings": a coerced reading is
\* appended and counted, a skipped one (continue) changes nothing
AfterReading(st, r) ==
    IF r.k = "skip" THEN st
    ELSE [readings |-> Append(st.readings, r.v),
          total_strikes |-> st.total_strikes + 1]

\* the loop from the state st = [readings, total_strikes], given the result r
\* of its first pass
RECURSIVE ParseReadings(_, _, _)
ReadingsStep(readings, record_datetime, st, r) ==
    IF r.k = "raise" THEN r
    ELSE ParseReadings(Tail(readings), record_datetime, AfterReading(st, r))

\* "for reading in readings": the state after the loop, or the exception that escapes
ParseReadings(readings, record_datetime, st) ==
    IF readings = <<>> THEN Ok(st)
    ELSE ReadingsStep(readings, record_datetime, st,
                      ParseReading(Head(readings), record_datetime))

\* "if readings:", the test that counts a period in records_with_lightning
CountsAsLightning(readings) == Truthy(readings)

\* "if record_datetime: all_datetimes.append(record_datetime)"
CollectDatetime(all_datetimes, record_datetime) ==
    IF Truthy(record_datetime)
    THEN Append(all_datetimes, record_datetime.s)
    ELSE all_datetimes

\* AfterRecord for a parser that records only the periods that kept a reading
AfterRecord_SkipsEmpty(acc, record_datetime, updated_timestamp, item, readings, rs) ==
    IF rs.k = "raise" THEN rs
    ELSE Ok([records |->
                 IF rs.v.readings = <<>> THEN acc.records
                 ELSE Append(acc.records,
                             [datetime |-> record_datetime,
                              updated_timestamp |-> updated_timestamp,
                              is_station_data |-> Get(item.isStationData, JBool(FALSE)),
                              observation_type |-> Get(item.type, JStr("unknown")),
                              readings_count |-> Len(readings.items),
                              readings |-> rs.v.readings]),
             total_strikes |-> rs.v.total_strikes,
             records_with_lightning |->
                 acc.records_with_lightning
                 + (IF CountsAsLightning(readings) THEN 1 ELSE 0),
             all_datetimes |-> CollectDatetime(acc.all_datetimes, record_datetime)])

\* the accumulated state after a period whose reading loop ended in rs
AfterRecord(acc, record_datetime, updated_timestamp, item, readings, rs) ==
    IF rs.k = "raise" THEN rs
    ELSE Ok([records |->
                 Append(acc.records,
                        [datetime |-> record_datetime,
                         updated_timestamp |-> updated_timestamp,
                         is_station_data |-> Get(item.isStationData, JBool(FALSE)),
                         observation_type |-> Get(item.type, JStr("unknown")),
                         readings_count |-> Len(readings.items),
                         readings |-> rs.v.readings]),
             total_strikes |-> rs.v.total_strikes,
             records_with_lightning |->
                 acc.records_with_lightning
                 + (IF CountsAsLightning(readings) THEN 1 ELSE 0),
             all_datetimes |-> CollectDatetime(acc.all_datetimes, record_datetime)])

\* the period from readings = item.get('readings', []) on
ParseItemReadings(acc, record_datetime, updated_timestamp, item, readings) ==
    IF readings.t # "list" THEN Raise("TypeError")
    ELSE AfterRecord(acc, record_datetime, updated_timestamp, item, readings,
                     ParseReadings(readings.items, record_datetime,
                                   [readings |-> <<>>,
                                    total_strikes |-> acc.total_strikes]))

\* the period from item = record.get('item', {}) on
ParseItem(acc, record_datetime, updated_timestamp, item) ==
    IF item.t # "obj" THEN Raise("AttributeError")
    ELSE ParseItemReadings(acc, record_datetime, updated_timestamp, item,
                           Get(item.readings, JList(<<>>)))

\* one pass of the body of "for record in records" on the accumulated state
ParseRecord(acc, record) ==
    IF record.t # "obj" THEN Raise("AttributeError")
    ELSE ParseItem(acc, Get(record.datetime, JNull),
                   Get(record.updatedTimestamp, JNull),
                   Get(record.item, EmptyItem))

\* the loop given the result r of its first pass
RECURSIVE ParseRecords(_, _)
RecordsStep(records, r) ==
    IF r.k = "raise" THEN r ELSE ParseRecords(r.v, Tail(records))

\* "for record in records"
ParseRecords(acc, records) ==
    IF records = <<>> THEN Ok(acc)
    ELSE RecordsStep(records, ParseRecord(acc, Head(records)))

\* TimeRange for a parser that stamps the range with the time of the call
TimeRange_ReadsClock(all_datetimes) ==
    [earliest |-> JStr(Now), latest |-> JStr(Now)]

\* the time range of the period timestamps collected
TimeRange(all_datetimes) ==
    IF all_datetimes # <<>>
    THEN [earliest |-> JStr(min(all_datetimes)), latest |-> JStr(max(all_datetimes))]
    ELSE [earliest |-> JNull, latest |-> JNull]

\* "not api_response": None, an empty dict or an empty list
ResponseFalsy(r) ==
    \/ r.t = "null"
    \/ r.t = "list" /\ r.items = <<>>
    \/ r.t = "obj" /\ r.code = Missing /\ r.errorMsg = Missing /\ r.data = Missing

\* the status code that parse_lightning_response accepts
SuccessCode == JNum(0)

\* the parsed_data returned when the record loop ended in loop
ParsedData(r, data_section, loop) ==
    IF loop.k = "raise" THEN loop
    ELSE Ok([timestamp |-> Now,
             api_status |-> r.code,
             error_message |-> Get(r.errorMsg, JStr("")),
             pagination_token |-> Get(data_section.paginationToken, JNull),
             records |-> loop.v.records,
             total_strikes |-> loop.v.total_strikes,
             records_with_lightning |-> loop.v.records_with_lightning,
             time_range |-> TimeRange(loop.v.all_datetimes)])

\* the parse from records = data_section.get('records', []) on
ParseRecordList(r, data_section, records) ==
    IF records.t # "list" THEN Raise("TypeError")
    ELSE ParsedData(r, data_section,
                    ParseRecords([records |-> <<>>,
                                  total_strikes |-> 0,
                                  records_with_lightning |-> 0,
                                  all_datetimes |-> <<>>],
                                 records.items))

\* the parse from api_response.get('data', {}) on
ParseData(r, data_section) ==
    IF data_section.t # "obj" THEN Raise("AttributeError")
    ELSE ParseRecordList(r, data_section, Get(data_section.records, JList(<<>>)))

parse_lightning_response(r) ==
    IF ResponseFalsy(r) THEN None
    ELSE IF r.t # "obj" THEN Raise("AttributeError")
    ELSE IF r.code # SuccessCode THEN None
    ELSE ParseData(r, Get(r.data, EmptyData))

\* the within-bounds test of the diagnostic tally
InDisplayBox(coord) ==
    /\ singapore_bounds.lat_min <= coord.latitude
    /\ coord.latitude <= singapore_bounds.lat_max
    /\ singapore_bounds.lon_min <= coord.longitude
    /\ coord.longitude <= singapore_bounds.lon_max

\* the coord_data entries of one record, in reading order
CoordsOfRecord(record) ==
    [j \in 1..Len(record.readings) |->
        [latitude |-> record.readings[j].latitude,
         longitude |-> record.readings[j].longitude,
         type |-> record.readings[j].type,
         description |-> record.readings[j].description,
         datetime |-> record.readings[j].datetime,
         record_datetime |-> record.datetime]]

\* KeepCoordinate with the bounds tally turned into a filter
KeepCoordinate_InBoxOnly(coord) == InDisplayBox(coord)

\* which of the extracted entries extract_coordinates returns
KeepCoordinate(coord) == TRUE

RECURSIVE CoordinatesOf(_)
CoordinatesOf(records) ==
    IF records = <<>> THEN <<>>
    ELSE SelectSeq(CoordsOfRecord(Head(records)), KeepCoordinate)
         \o CoordinatesOf(Tail(records))

\* extract_coordinates(parsed_data), parsed_data a call result of the parser
extract_coordinates(parsed_data) ==
    IF parsed_data.k # "ok" \/ parsed_data.v.records = <<>>
    THEN <<>>
    ELSE CoordinatesOf(parsed_data.v.records)

\* the "Coordinates within Singapore bounds" tally (0 when nothing was extracted)
ValidCount(coordinates_list) ==
    Len(SelectSeq(coordinates_list, InDisplayBox))

\* what the HTTP exchange can do other than answer 200 with a JSON body
TransportFailures == {"timeout", "connection_error", "http_error", "not_json"}

\* the exception requests.get or response.json() raises inside the try block
RaisedInFetch ==
    [timeout |-> "requests.Timeout", connection_error |-> "requests.ConnectionError",
     not_json |-> "JSONDecodeError"]

\* FetchCaught for a handler that lets a timeout through
FetchCaught_NoTimeout == {"requests.ConnectionError", "JSONDecodeError"}

\* the exceptions the two except clauses of fetch_lightning_data catch
FetchCaught == {"requests.Timeout", "requests.ConnectionError", "JSONDecodeError"}

\* fetch_lightning_data(): the body on a 200 with JSON, None on everything else
fetch_lightning_data ==
    CASE transport = "ok" -> Ok(api_response)
      [] transport = "http_error" -> None
      [] OTHER -> IF RaisedInFetch[transport] \in FetchCaught THEN None
                  ELSE Raise(RaisedInFetch[transport])

\* "not raw_data" on the result of the fetch
FetchFailed(raw) == raw.k = "none" \/ (raw.k = "ok" /\ ResponseFalsy(raw.v))

FetchFailure ==
    [success |-> FALSE,
     error |-> "Failed to fetch lightning data from API",
     coordinates |-> <<>>, total_strikes |-> 0, timestamp |-> Now]

ParseFailure ==
    [success |-> FALSE,
     error |-> "Failed to parse lightning data",
     coordinates |-> <<>>, total_strikes |-> 0, timestamp |-> Now]

\* SummaryOf with raw_records_count taken over the periods that had readings
SummaryOf_CountsLightningPeriods(parsed_data) ==
    CASE parsed_data.k = "raise" -> parsed_data
      [] parsed_data.k = "none" -> Ok(ParseFailure)
      [] OTHER ->
         Ok([success |-> TRUE,
             coordinates |-> extract_coordinates(parsed_data),
             total_strikes |-> parsed_data.v.total_strikes,
             records_with_lightning |-> parsed_data.v.records_with_lightning,
             time_range |-> parsed_data.v.time_range,
             timestamp |-> parsed_data.v.timestamp,
             singapore_bounds |-> singapore_bounds,
             raw_records_count |-> parsed_data.v.records_with_lightning])

\* get_lightning_summary() from the result parsed_data of the parse on
SummaryOf(parsed_data) ==
    CASE parsed_data.k = "raise" -> parsed_data
      [] parsed_data.k = "none" -> Ok(ParseFailure)
      [] OTHER ->
         Ok([success |-> TRUE,
             coordinates |-> extract_coordinates(parsed_data),
             total_strikes |-> parsed_data.v.total_strikes,
             records_with_lightning |-> parsed_data.v.records_with_lightning,
             time_range |-> parsed_data.v.time_range,
             timestamp |-> parsed_data.v.timestamp,
             singapore_bounds |-> singapore_bounds,
             raw_records_count |-> Len(parsed_data.v.records)])

\* get_lightning_summary(), given the result of its fetch
get_lightning_summary(raw) ==
    IF raw.k = "raise" THEN raw
    ELSE IF FetchFailed(raw) THEN Ok(FetchFailure)
    ELSE SummaryOf(parse_lightning_response(raw.v))

----------------------------------------------------------------------------
(* The weather API bodies the model draws from *)

Location(lat, lon) == [t |-> "obj", latitude |-> lat, longitude |-> lon]
Reading(location, type, text, datetime) ==
    [t |-> "obj", location |-> location, type |-> type, text |-> text,
     datetime |-> datetime]
Item(readings) ==
    [t |-> "obj", isStationData |-> JBool(FALSE), type |-> JStr("lightning"),
     readings |-> readings]
Period(datetime, item) ==
    [t |-> "obj", datetime |-> datetime, updatedTimestamp |-> Missing,
     item |-> item]
Data(token, records) ==
    [t |-> "obj", paginationToken |-> token, records |-> records]
Response(code, errorMsg, data) ==
    [t |-> "obj", code |-> code, errorMsg |-> errorMsg, data |-> data]

\* a complete reading inside the display box, with its own (earlier) timestamp
ReadingInside ==
    Reading(Location(JStr("1.3521"), JStr("103.8198")),
            JStr("C"), JStr("Cloud to Cloud"), JStr(T0))
\* readings without type, text and datetime
Bare(location) == Reading(location, Missing, Missing, Missing)
ReadingOutside == Bare(Location(JStr("40.7128"), JStr("-74.0060")))
ReadingBadLat == Bare(Location(JStr("invalid"), JStr("103.8198")))
ReadingNullLon == Bare(Location(JStr("1.3521"), JNull))
ReadingNoLat == Bare(Location(Missing, JStr("103.8198")))
ReadingNumeric == Bare(Location(JNum(1352100), JNum(103819800)))
ReadingNoLocation == Bare(Missing)
ReadingNullLocation == Bare(JNull)

\* readings that differ in how their coordinates coerce
CoercionReadings ==
    {ReadingInside, ReadingBadLat, ReadingNullLon, ReadingNoLat, ReadingNumeric}

\* readings that differ in shape and in place
ShapeReadings ==
    {ReadingInside, ReadingOutside, ReadingNoLocation, ReadingNullLocation}

\* the sequences of length n over S
RECURSIVE SeqsOf(_, _)
SeqsOf(S, n) ==
    IF n = 0 THEN {<<>>}
    ELSE {<<x>> \o rest : x \in S, rest \in SeqsOf(S, n - 1)}

\* the periods with n readings: the given empty ones when n = 0
PeriodsWith(n, empties, readings, datetimes) ==
    IF n = 0 THEN empties
    ELSE {Period(dt, Item(JList(rs))) :
              dt \in datetimes, rs \in SeqsOf(readings, n)}

\* the batches of at most p periods that hold at most k readings in all
RECURSIVE Batches(_, _, _, _, _)
Batches(p, k, empties, readings, datetimes) ==
    IF p = 0 THEN {<<>>}
    ELSE {<<>>} \cup
         UNION {{<<per>> \o rest :
                    per \in PeriodsWith(n, empties, readings, datetimes),
                    rest \in Batches(p - 1, k - n, empties, readings, datetimes)} :
                n \in 0..k}

\* batches of well-formed periods that vary the coordinates of the readings
CoercionBatches ==
    Batches(MaxPeriods, MaxReadings,
            {Period(JStr(T1), Item(Missing)), Period(JStr(T1), Item(JList(<<>>)))},
            CoercionReadings, {JStr(T1)})

\* batches that vary the shape of the periods and of the readings
ShapeBatches ==
    Batches(MaxPeriods, MaxReadings,
            {JNull, Period(JStr(T1), Missing), Period(JStr(T1), JNull)},
            ShapeReadings, {JStr(T1)})

PeriodDatetimes == {Missing, JNull, JStr(""), JStr(T1), JStr(T2)}

\* batches that vary the period timestamps, under one kind of reading
DatetimeBatches ==
    Batches(MaxPeriods, MaxReadings,
            {Period(dt, Item(JList(<<>>))) : dt \in PeriodDatetimes},
            {ReadingInside}, PeriodDatetimes)

\* a reading whose type, text and datetime are present and null
ReadingNullFields ==
    Reading(Location(JStr("1.3521"), JStr("103.8198")), JNull, JNull, JNull)

\* a period item without isStationData and type
UntypedItem(readings) ==
    [t |-> "obj", isStationData |-> Missing, type |-> Missing,
     readings |-> readings]

\* one-period batches that vary which fields the period and its readings carry
FieldBatches ==
    {<<Period(dt, UntypedItem(JList(rs)))>> :
         dt \in {Missing, JStr(T1)},
         rs \in UNION {SeqsOf({ReadingInside, ReadingNumeric, ReadingNullFields,
                               ReadingBadLat}, n) : n \in 1..MaxReadings}}

\* periods delivered latest first, with no reading, a reading that is dropped
\* or a reading that is kept
OrderPeriods ==
    {[Period(dt, Item(JList(rs))) EXCEPT !.updatedTimestamp = dt] :
         dt \in {JStr(T2), JStr(T1), JStr(T0)},
         rs \in {<<>>, <<ReadingBadLat>>, <<ReadingInside>>}}

\* batches of MaxPeriods such periods
OrderBatches == SeqsOf(OrderPeriods, MaxPeriods)

Responses ==
    {JNull,
     Response(Missing, Missing, Missing),
     JList(<<>>),
     JList(<<JNull>>),
     Response(Missing, Missing, Data(Missing, JList(<<>>))),
     Response(JNum(1), JStr("API Error"), Missing),
     Response(JNum(1), Missing,
              Data(Missing, JList(<<Period(JStr(T1), Item(JList(<<ReadingInside>>)))>>))),
     Response(JNum(0), Missing, Missing),
     Response(JNum(0), JStr(""), JNull),
     Response(JNum(0), JStr(""), Data(Missing, Missing)),
     Response(JNum(0), JStr(""), Data(JNull, JNull))}
    \cup {Response(JNum(0), JStr(""), Data(JStr("token"), JList(b))) :
              b \in CoercionBatches \cup ShapeBatches \cup DatetimeBatches
                    \cup FieldBatches \cup OrderBatches}

----------------------------------------------------------------------------
(* The lightning service as a state machine: one call per behaviour *)

LightningIdle ==
    /\ transport = "timeout"
    /\ api_response = JNull
    /\ called = "none"
    /\ raw_data = NotCalled
    /\ parsed = NotCalled
    /\ coordinates = NotCalled
    /\ valid_count = 0
    /\ summary = NotCalled
    /\ http_gets = 0

GeocoderIdle ==
    /\ g_query = JNull
    /\ g_net = [kind |-> "timeout"]
    /\ g_called = "none"
    /\ g_out = NotCalled

BoundsIdle ==
    /\ b_point = <<"1.3521", "103.8198">>
    /\ b_called = "none"
    /\ b_out = NotCalled

BatchIdle ==
    /\ t_in = <<>>
    /\ t_status = "idle"
    /\ t_results = <<>>
    /\ t_df = NotCalled
    /\ t_sleeps = 0
    /\ t_gets = 0

\* lightning_cache as the module creates it
EmptyCache == [last_update |-> JNull, data |-> JNull, map_html |-> JNull]

WebIdle ==
    /\ w_cache = EmptyCache
    /\ w_good = None
    /\ w_response = NotCalled
    /\ w_requests = 0

LightningInit ==
    /\ \/ transport = "ok" /\ api_response \in Responses
       \/ transport \in TransportFailures /\ api_response = JNull
    /\ called = "none"
    /\ raw_data = NotCalled
    /\ parsed = NotCalled
    /\ coordinates = NotCalled
    /\ valid_count = 0
    /\ summary = NotCalled
    /\ http_gets = 0
    /\ GeocoderIdle
    /\ BoundsIdle
    /\ BatchIdle
    /\ WebIdle
    /\ clock = 0

\* LightningService.fetch_lightning_data()
FetchLightningData ==
    /\ called = "none"
    /\ called' = "fetch"
    /\ raw_data' = fetch_lightning_data
    /\ http_gets' = http_gets + 1
    /\ UNCHANGED <<transport, api_response, parsed, coordinates, valid_count, summary>>
    /\ UNCHANGED <<gvars, bvars, tvars, wvars, clock>>

\* LightningService.parse_lightning_response(api_response)
ParseLightningResponse ==
    /\ called = "none"
    /\ called' = "parse"
    /\ parsed' = parse_lightning_response(api_response)
    /\ UNCHANGED <<transport, api_response, raw_data, coordinates, valid_count,
                   summary, http_gets>>
    /\ UNCHANGED <<gvars, bvars, tvars, wvars>>
    /\ Tick

\* a second parse_lightning_response(api_response) on the same object
ParseLightningResponseAgain ==
    /\ called = "parse"
    /\ called' = "parse_again"
    /\ parsed' = parse_lightning_response(api_response)
    /\ UNCHANGED <<transport, api_response, raw_data, coordinates, valid_count,
                   summary, http_gets>>
    /\ UNCHANGED <<gvars, bvars, tvars, wvars>>
    /\ Tick

\* LightningService.extract_coordinates(parsed_data) on the result of a parse
ExtractCoordinates ==
    /\ called = "parse"
    /\ parsed.k # "raise"
    /\ called' = "extract"
    /\ coordinates' = Ok(extract_coordinates(parsed))
    /\ valid_count' = ValidCount(extract_coordinates(parsed))
    /\ UNCHANGED <<transport, api_response, raw_data, parsed, summary, http_gets>>
    /\ UNCHANGED <<gvars, bvars, tvars, wvars, clock>>

\* LightningService.get_lightning_summary()
GetLightningSummary ==
    /\ called = "none"
    /\ called' = "summary"
    /\ raw_data' = fetch_lightning_data
    /\ http_gets' = http_gets + 1
    /\ summary' = get_lightning_summary(fetch_lightning_data)
    /\ UNCHANGED <<transport, api_response, parsed, coordinates, valid_count>>
    /\ UNCHANGED <<gvars, bvars, tvars, wvars>>
    /\ Tick

LightningNext ==
    \/ FetchLightningData
    \/ ParseLightningResponse
    \/ ParseLightningResponseAgain
    \/ ExtractCoordinates
    \/ GetLightningSummary

LightningSpec == LightningInit /\ [][LightningNext]_vars

----------------------------------------------------------------------------
(* What the claims speak of, stated on the input and on the output *)

RECURSIVE SumSeq(_)
SumSeq(ns) == IF ns = <<>> THEN 0 ELSE Head(ns) + SumSeq(Tail(ns))

\* the periods of a response, <<>> when it has no list of them
InputPeriods(r) ==
    IF r.t = "obj" /\ r.data.t = "obj" /\ r.data.records.t = "list"
    THEN r.data.records.items ELSE <<>>

\* the raw readings of a period, <<>> when it has no list of them
InputReadings(period) ==
    IF period.t = "obj" /\ period.item.t = "obj" /\ period.item.readings.t = "list"
    THEN period.item.readings.items ELSE <<>>

\* a coordinate that is a number, a numeric string, or absent (the default 0)
IsNumeric(v) ==
    v.t \in {"num", "missing"} \/ (v.t = "str" /\ v.s \in DOMAIN FloatOfStr)
NumberOf(v) ==
    CASE v.t = "missing" -> 0 [] v.t = "num" -> v.n [] OTHER -> FloatOfStr[v.s]

\* a reading with a location object one of whose coordinates is not numeric
NonNumeric(reading) ==
    /\ reading.t = "obj" /\ reading.location.t = "obj"
    /\ ~(IsNumeric(reading.location.latitude) /\ IsNumeric(reading.location.longitude))

\* a reading both of whose coordinates coerce to numbers
Coercible(reading) ==
    /\ reading.t = "obj"
    /\ reading.location.t \in {"obj", "missing"}
    /\ reading.location.t = "obj" =>
           /\ IsNumeric(reading.location.latitude)
           /\ IsNumeric(reading.location.longitude)

\* the coordinate pairs expected of the raw readings of one period
ExpectedPairs(readings) ==
    [j \in 1..Len(SelectSeq(readings, Coercible)) |->
        IF SelectSeq(readings, Coercible)[j].location.t = "missing"
        THEN <<0, 0>>
        ELSE <<NumberOf(SelectSeq(readings, Coercible)[j].location.latitude),
               NumberOf(SelectSeq(readings, Coercible)[j].location.longitude)>>]
PairsOf(readings) ==
    [j \in 1..Len(readings) |-> <<readings[j].latitude, readings[j].longitude>>]

\* every container of the response has the shape the parser reads
WellShaped(r) ==
    /\ r.t = "obj"
    /\ r.data.t \in {"obj", "missing"}
    /\ r.data.t = "obj" => r.data.records.t \in {"list", "missing"}
    /\ \A i \in DOMAIN InputPeriods(r) :
         /\ InputPeriods(r)[i].t = "obj"
         /\ InputPeriods(r)[i].item.t \in {"obj", "missing"}
         /\ InputPeriods(r)[i].item.t = "obj" =>
                InputPeriods(r)[i].item.readings.t \in {"list", "missing"}
         /\ \A j \in DOMAIN InputReadings(InputPeriods(r)[i]) :
              /\ InputReadings(InputPeriods(r)[i])[j].t = "obj"
              /\ InputReadings(InputPeriods(r)[i])[j].location.t \in {"obj", "missing"}

\* the number of output readings of all periods
OutputReadingCount(records) ==
    SumSeq([i \in 1..Len(records) |-> Len(records[i].readings)])

\* the number of raw readings of all periods that coerce
CoercibleCount(periods) ==
    SumSeq([i \in 1..Len(periods) |->
               Len(SelectSeq(InputReadings(periods[i]), Coercible))])

\* a period of the output dropped one of its raw readings
SomeReadingDropped(records) ==
    \E i \in DOMAIN records : Len(records[i].readings) < records[i].readings_count

----------------------------------------------------------------------------
(* C1: whenever parse_lightning_response returns a summary, total_strikes  *)
(* is the sum of the lengths of the per-period output readings lists, and  *)
(* that is the number of raw readings whose latitude and longitude both    *)
(* coerced to numbers.                                                     *)
C1_TotalStrikesIsSumOfReadings ==
    parsed.k = "ok" =>
        /\ parsed.v.total_strikes = OutputReadingCount(parsed.v.records)
        /\ parsed.v.total_strikes = CoercibleCount(InputPeriods(api_response))

\* a summary that counts a strike and dropped a reading
C1_Witness ==
    /\ parsed.k = "ok"
    /\ parsed.v.total_strikes >= 1
    /\ SomeReadingDropped(parsed.v.records)

(* C2: whenever parse_lightning_response returns a summary,                *)
(* records_with_lightning is the number of periods with at least one       *)
(* successfully-coerced reading (a period whose readings all fail          *)
(* coercion is not counted).                                               *)
C2_CountsPeriodsWithStrikes ==
    parsed.k = "ok" =>
        parsed.v.records_with_lightning =
            Cardinality({i \in DOMAIN parsed.v.records :
                            parsed.v.records[i].readings # <<>>})

(* C3: a reading with a non-numeric latitude or longitude never makes the  *)
(* parse raise or fail (an accepted, well-shaped response always yields a  *)
(* summary), and in a summary every period of the input is present and     *)
(* holds exactly the coercible readings of that period, in order: only the *)
(* non-numeric readings are missing.                                       *)
C3_BadCoordinatesAreIsolated ==
    parsed # NotCalled =>
        /\ (WellShaped(api_response) /\ api_response.code = JNum(0))
               => parsed.k = "ok"
        /\ parsed.k = "ok" =>
               /\ Len(parsed.v.records) = Len(InputPeriods(api_response))
               /\ \A i \in DOMAIN parsed.v.records :
                      PairsOf(parsed.v.records[i].readings) =
                          ExpectedPairs(InputReadings(InputPeriods(api_response)[i]))

\* the first reading of a period is non-numeric, its sibling is kept, and the
\* period after it is processed
C3_Witness ==
    /\ parsed.k = "ok"
    /\ Len(parsed.v.records) = 2
    /\ Len(InputReadings(InputPeriods(api_response)[1])) = 2
    /\ NonNumeric(InputReadings(InputPeriods(api_response)[1])[1])
    /\ InputReadings(InputPeriods(api_response)[1])[1].location.longitude = JNull
    /\ Len(parsed.v.records[1].readings) = 1

(* C4: get_lightning_summary never raises, whatever the fetch outcome and  *)
(* the payload: it always returns a record, with success=false and an      *)
(* error string on every failure.                                          *)
C4_SummaryNeverRaises ==
    called = "summary" =>
        /\ summary.k = "ok"
        /\ summary.v.success \/ summary.v.error # ""

(* C5: parse_lightning_response returns a failure exactly when the         *)
(* response is absent, empty or carries a status code other than 0, and    *)
(* every response with code 0 yields a summary.  (Stated for the           *)
(* responses that are None or a JSON object.)                              *)
Rejected(r) ==
    \/ r.t = "null"
    \/ r.t = "list" /\ r.items = <<>>
    \/ r.t = "obj" /\ r.code # JNum(0)
C5_FailureIffRejected ==
    (called = "parse" /\ api_response.t \in {"null", "obj"}) =>
        /\ parsed = None <=> Rejected(api_response)
        /\ ~Rejected(api_response) => parsed.k = "ok"

\* the period timestamps of a response that satisfy keep
Stamps(r, keep(_)) ==
    {InputPeriods(r)[i].datetime.s :
        i \in {j \in DOMAIN InputPeriods(r) :
                  /\ InputPeriods(r)[j].datetime.t = "str"
                  /\ keep(InputPeriods(r)[j].datetime.s)}}
AnyString(str) == TRUE
NonEmptyString(str) == str # ""
Least(strs) == CHOOSE a \in strs : \A b \in strs : StrLeq(a, b)
Greatest(strs) == CHOOSE a \in strs : \A b \in strs : StrLeq(b, a)

\* time_range is the least and the greatest of strs, or null twice when strs is empty
TimeRangeIs(range, strs) ==
    IF strs = {}
    THEN range.earliest = JNull /\ range.latest = JNull
    ELSE /\ range.earliest = JStr(Least(strs))
         /\ range.latest = JStr(Greatest(strs))
         /\ StrLeq(range.earliest.s, range.latest.s)

(* C6 as stated: in a summary, time_range.earliest and time_range.latest   *)
(* are the string-minimum and string-maximum of the period timestamps that *)
(* are non-null, and both are null when no period has a timestamp.         *)
C6_RangeOverNonNullStamps ==
    parsed.k = "ok" =>
        TimeRangeIs(parsed.v.time_range, Stamps(api_response, AnyString))

(* C6, amended: in a summary, time_range.earliest and time_range.latest    *)
(* are the string-minimum and string-maximum of the period timestamps that *)
(* are neither null nor the empty string (reading timestamps are never     *)
(* considered), both are null when no period has such a timestamp, and     *)
(* earliest <= latest in string order whenever they are non-null.          *)
C6_RangeOverNonEmptyStamps ==
    parsed.k = "ok" =>
        TimeRangeIs(parsed.v.time_range, Stamps(api_response, NonEmptyString))

\* periods delivered latest first, with an earlier reading timestamp inside
C6_Witness ==
    /\ parsed.k = "ok"
    /\ Len(parsed.v.records) = 2
    /\ parsed.v.records[1].datetime = JStr(T2)
    /\ parsed.v.records[2].datetime = JStr(T1)
    /\ parsed.v.total_strikes >= 1
    /\ parsed.v.time_range = [earliest |-> JStr(T1), latest |-> JStr(T2)]

\* the place of reading j of period i in the flattened list
PlaceOf(records, i, j) ==
    SumSeq([h \in 1..(i - 1) |-> Len(records[h].readings)]) + j

(* C7: extract_coordinates returns one entry for every reading of the      *)
(* parsed summary, in period order then reading order, inside the display  *)
(* box or not; the box decides only the diagnostic within-bounds count.    *)
C7_ExtractKeepsEveryReading ==
    (called = "extract" /\ parsed.k = "ok") =>
        /\ Len(coordinates.v) = OutputReadingCount(parsed.v.records)
        /\ \A i \in DOMAIN parsed.v.records :
             \A j \in DOMAIN parsed.v.records[i].readings :
                /\ coordinates.v[PlaceOf(parsed.v.records, i, j)].latitude
                       = parsed.v.records[i].readings[j].latitude
                /\ coordinates.v[PlaceOf(parsed.v.records, i, j)].longitude
                       = parsed.v.records[i].readings[j].longitude
                /\ coordinates.v[PlaceOf(parsed.v.records, i, j)].datetime
                       = parsed.v.records[i].readings[j].datetime
        /\ valid_count =
               Cardinality({n \in DOMAIN coordinates.v :
                               InDisplayBox(coordinates.v[n])})

\* a point outside the display box is returned, after one inside it
C7_Witness ==
    /\ called = "extract"
    /\ parsed.k = "ok"
    /\ Len(coordinates.v) = 2
    /\ InDisplayBox(coordinates.v[1])
    /\ ~InDisplayBox(coordinates.v[2])
    /\ valid_count = 1

----------------------------------------------------------------------------
(* Text: a str the code scans is a sequence of one-character strings *)

Text(chars) == [t |-> "text", chars |-> chars]

Digits == {"0", "1", "2", "3", "4", "5", "6", "7", "8", "9"}
Letters ==
    {"a", "b", "c", "d", "e", "f", "g", "h", "i", "j", "k", "l", "m", "n", "o",
     "p", "q", "r", "s", "t", "u", "v", "w", "x", "y", "z", "A", "B", "C", "D",
     "E", "F", "G", "H", "I", "J", "K", "L", "M", "N", "O", "P", "Q", "R", "S",
     "T", "U", "V", "W", "X", "Y", "Z"}
IsDigit(c) == c \in Digits
\* \w: a letter, a digit or the underscore
IsWordChar(c) == c \in Digits \cup Letters \cup {"_"}
IsSpace(c) == c = " "

\* str.strip()
RECURSIVE lstrip(_)
lstrip(chars) ==
    IF chars # <<>> /\ IsSpace(Head(chars)) THEN lstrip(Tail(chars)) ELSE chars
RECURSIVE rstrip(_)
rstrip(chars) ==
    IF chars # <<>> /\ IsSpace(chars[Len(chars)])
    THEN rstrip(SubSeq(chars, 1, Len(chars) - 1))
    ELSE chars
strip(chars) == rstrip(lstrip(chars))

\* re.sub(r'[^0-9]', '', chars)
DigitsOnly(chars) == SelectSeq(chars, IsDigit)

\* POSTAL_CODE_REGEX = ^\d{6}$ matched against chars
POSTAL_CODE_REGEX_match(chars) ==
    Len(chars) = 6 /\ \A i \in 1..6 : IsDigit(chars[i])

\* WordBoundary for a pattern written without \b
WordBoundary_Dropped(chars, i) == TRUE

\* \b at the gap before position i (1..Len+1) of chars
WordBoundary(chars, i) ==
    (i > 1 /\ IsWordChar(chars[i - 1])) # (i <= Len(chars) /\ IsWordChar(chars[i]))

\* the start positions at which \b(\d{6})\b matches in chars
PostalMatches(chars) ==
    {i \in 1..(Len(chars) - 5) :
        /\ \A h \in i..(i + 5) : IsDigit(chars[h])
        /\ WordBoundary(chars, i)
        /\ WordBoundary(chars, i + 6)}

\* re.search(r'\b(\d{6})\b', chars): group(1) of the leftmost match, or None
re_search_postal(chars) ==
    IF PostalMatches(chars) = {} THEN None
    ELSE Ok(SubSeq(chars,
                   CHOOSE i \in PostalMatches(chars) :
                       \A h \in PostalMatches(chars) : i <= h,
                   (CHOOSE i \in PostalMatches(chars) :
                       \A h \in PostalMatches(chars) : i <= h) + 5))

\* "not q or not isinstance(q, str)" for a query value q
EmptyOrNotStr(q) == q.t # "text" \/ q.chars = <<>>

\* "not q or not isinstance(q, str) or not q.strip()"
BlankOrNotStr(q) == EmptyOrNotStr(q) \/ strip(q.chars) = <<>>

----------------------------------------------------------------------------
(* SingaporeGeocoder *)

SINGAPORE_BOUNDS ==
    [lat_min |-> 1160000, lat_max |-> 1480000,
     lon_min |-> 103590000, lon_max |-> 104040000,
     center_lat |-> 1352100, center_lon |-> 103819800]

\* a result dictionary of OneMap
RawResult(latitude, longitude, address, building, road) ==
    [t |-> "obj", LATITUDE |-> latitude, LONGITUDE |-> longitude,
     ADDRESS |-> address, BUILDING |-> building, ROAD |-> road]

SAMPLE_GEOCODING_DATA ==
    <<"2", "3", "8", "8", "7", "4">> :>
        RawResult(JStr("1.304167"), JStr("103.833611"),
                  Text(
                      <<"I", "O", "N", " ", "O", "r", "c", "h", "a", "r",
                        "d", ",", " ", "2", " ", "O", "r", "c", "h", "a",
                        "r", "d", " ", "T", "u", "r", "n", ",", " ", "S",
                        "i", "n", "g", "a", "p", "o", "r", "e", " ", "2",
                        "3", "8", "8", "7", "4">>),
                  JStr("ION Orchard"), JStr("Orchard Turn")) @@
    <<"0", "1", "8", "9", "8", "9">> :>
        RawResult(JStr("1.283611"), JStr("103.859722"),
                  Text(
                      <<"M", "a", "r", "i", "n", "a", " ", "B", "a", "y",
                        " ", "S", "a", "n", "d", "s", ",", " ", "1", "0",
                        " ", "B", "a", "y", "f", "r", "o", "n", "t", " ",
                        "A", "v", "e", "n", "u", "e", ",", " ", "S", "i",
                        "n", "g", "a", "p", "o", "r", "e", " ", "0", "1",
                        "8", "9", "8", "9">>),
                  JStr("Marina Bay Sands"), JStr("Bayfront Avenue")) @@
    <<"0", "1", "8", "9", "5", "6">> :>
        RawResult(JStr("1.281528"), JStr("103.865556"),
                  Text(
                      <<"G", "a", "r", "d", "e", "n", "s", " ", "b", "y",
                        " ", "t", "h", "e", " ", "B", "a", "y", ",", " ",
                        "1", "8", " ", "M", "a", "r", "i", "n", "a", " ",
                        "G", "a", "r", "d", "e", "n", "s", " ", "D", "r",
                        "i", "v", "e", ",", " ", "S", "i", "n", "g", "a",
                        "p", "o", "r", "e", " ", "0", "1", "8", "9", "5",
                        "6">>),
                  JStr("Gardens by the Bay"), JStr("Marina Gardens Drive")) @@
    <<"0", "7", "9", "9", "0", "3">> :>
        RawResult(JStr("1.403611"), JStr("103.791944"),
                  Text(
                      <<"S", "i", "n", "g", "a", "p", "o", "r", "e", " ",
                        "Z", "o", "o", ",", " ", "8", "0", " ", "M", "a",
                        "n", "d", "a", "i", " ", "L", "a", "k", "e", " ",
                        "R", "o", "a", "d", ",", " ", "S", "i", "n", "g",
                        "a", "p", "o", "r", "e", " ", "0", "7", "9", "9",
                        "0", "3">>),
                  JStr("Singapore Zoo"), JStr("Mandai Lake Road")) @@
    <<"0", "9", "9", "2", "5", "3">> :>
        RawResult(JStr("1.246389"), JStr("103.822778"),
                  Text(
                      <<"S", "e", "n", "t", "o", "s", "a", ",", " ", "3",
                        "9", " ", "A", "r", "t", "i", "l", "l", "e", "r",
                        "y", " ", "A", "v", "e", "n", "u", "e", ",", " ",
                        "S", "i", "n", "g", "a", "p", "o", "r", "e", " ",
                        "0", "9", "9", "2", "5", "3">>),
                  JStr("Sentosa"), JStr("Artillery Avenue"))

\* validate_postal_code that matches the stripped text as it stands
validate_postal_code_Whole(postal_code) ==
    IF EmptyOrNotStr(postal_code) THEN FALSE
    ELSE POSTAL_CODE_REGEX_match(strip(postal_code.chars))

validate_postal_code(postal_code) ==
    IF EmptyOrNotStr(postal_code) THEN FALSE
    ELSE POSTAL_CODE_REGEX_match(DigitsOnly(strip(postal_code.chars)))

\* clean_postal_code without the length test
clean_postal_code_AnyLength(postal_code) ==
    IF EmptyOrNotStr(postal_code) THEN None
    ELSE Ok(DigitsOnly(strip(postal_code.chars)))

\* the cleaned six digits, or None
clean_postal_code(postal_code) ==
    IF EmptyOrNotStr(postal_code) THEN None
    ELSE IF Len(DigitsOnly(strip(postal_code.chars))) = 6
         THEN Ok(DigitsOnly(strip(postal_code.chars)))
         ELSE None

\* the part of _make_api_call inside try, given what the network does:
\* the first result, or None on any failure (every exception is caught)
OneMapLookup(net) ==
    CASE net.kind # "json" -> None
      [] net.body.t # "obj" -> None
      [] Get(net.body.found, JNum(0)).t # "num" -> None
      [] Get(net.body.found, JNum(0)).n <= 0 -> None
      [] Get(net.body.results, JList(<<>>)).t # "list" -> None
      [] Get(net.body.results, JList(<<>>)).items = <<>> -> None
      [] OTHER -> Ok(Get(net.body.results, JList(<<>>)).items[1])

\* UsesSampleData for a _make_api_call that always goes to the network
UsesSampleData_Never(cleaned_query) == FALSE

\* whether _make_api_call answers from the sample table
UsesSampleData(cleaned_query) == cleaned_query \in DOMAIN SAMPLE_GEOCODING_DATA

\* _make_api_call that asks the network a second time when the first GET
\* brought no result
_make_api_call_Retrying(chars, net) ==
    IF UsesSampleData(strip(chars))
    THEN [ret |-> Ok(SAMPLE_GEOCODING_DATA[strip(chars)]), gets |-> 0,
          searchVal |-> Text(strip(chars))]
    ELSE [ret |-> OneMapLookup(net),
          gets |-> IF OneMapLookup(net).k = "none" THEN 2 ELSE 1,
          searchVal |-> Text(strip(chars))]

\* _make_api_call(query): its return value and the number of GETs it issued
_make_api_call(chars, net) ==
    IF UsesSampleData(strip(chars))
    THEN [ret |-> Ok(SAMPLE_GEOCODING_DATA[strip(chars)]), gets |-> 0,
          searchVal |-> Text(strip(chars))]
    ELSE [ret |-> OneMapLookup(net), gets |-> 1,
          searchVal |-> Text(strip(chars))]

\* InStrictBox for an extraction that never tests the box
InStrictBox_Anywhere(latitude, longitude) == TRUE

\* the bounds test of _extract_coordinates
InStrictBox(latitude, longitude) ==
    /\ SINGAPORE_BOUNDS.lat_min <= latitude
    /\ latitude <= SINGAPORE_BOUNDS.lat_max
    /\ SINGAPORE_BOUNDS.lon_min <= longitude
    /\ longitude <= SINGAPORE_BOUNDS.lon_max

\* is_valid_singapore_coordinates with an exclusive lower latitude edge
is_valid_singapore_coordinates_Exclusive(latitude, longitude) ==
    /\ SINGAPORE_BOUNDS.lat_min < latitude
    /\ latitude <= SINGAPORE_BOUNDS.lat_max
    /\ SINGAPORE_BOUNDS.lon_min <= longitude
    /\ longitude <= SINGAPORE_BOUNDS.lon_max

is_valid_singapore_coordinates(latitude, longitude) ==
    /\ SINGAPORE_BOUNDS.lat_min <= latitude
    /\ latitude <= SINGAPORE_BOUNDS.lat_max
    /\ SINGAPORE_BOUNDS.lon_min <= longitude
    /\ longitude <= SINGAPORE_BOUNDS.lon_max

\* the exceptions _extract_coordinates catches
ExtractCaught == {"ValueError", "TypeError", "KeyError"}

\* _extract_coordinates from the results lat and lon of its two float() calls
ExtractFrom(lat, lon) ==
    IF lat.k = "raise" THEN (IF lat.exc \in ExtractCaught THEN None ELSE lat)
    ELSE IF lon.k = "raise" THEN (IF lon.exc \in ExtractCaught THEN None ELSE lon)
    ELSE IF InStrictBox(lat.v, lon.v) THEN Ok(<<lat.v, lon.v>>)
    ELSE None

\* _extract_coordinates(geocoding_result): (lat, lon), None, or an exception
\* (.get on a value that is no dict is an AttributeError, which is not caught)
_extract_coordinates(geocoding_result) ==
    IF geocoding_result.t # "obj" THEN Raise("AttributeError")
    ELSE ExtractFrom(float(Get(geocoding_result.LATITUDE, JNum(0))),
                     float(Get(geocoding_result.LONGITUDE, JNum(0))))

\* _create_result_dict with success defaulting to True
_create_result_dict_Successful(query, query_type) ==
    [query |-> query, query_type |-> query_type, success |-> TRUE,
     latitude |-> JNull, longitude |-> JNull, address |-> JNull,
     building |-> JNull, road |-> JNull, postal_code |-> JNull,
     error |-> JNull, timestamp |-> Now]

_create_result_dict(query, query_type) ==
    [query |-> query, query_type |-> query_type, success |-> FALSE,
     latitude |-> JNull, longitude |-> JNull, address |-> JNull,
     building |-> JNull, road |-> JNull, postal_code |-> JNull,
     error |-> JNull, timestamp |-> Now]

\* "if geocoding_result:" on the return value of _make_api_call
Found(ret) ==
    /\ ret.k = "ok"
    /\ ret.v.t = "obj" =>
           ~(/\ ret.v.LATITUDE = Missing /\ ret.v.LONGITUDE = Missing
             /\ ret.v.ADDRESS = Missing /\ ret.v.BUILDING = Missing
             /\ ret.v.ROAD = Missing)
    /\ ret.v.t # "obj" => Truthy(ret.v)

\* what a geocoding call did: its return value (or the exception that escapes),
\* the number of _make_api_call calls and of GETs, and the text looked up
Outcome(ret, api_calls, gets, searchVal) ==
    [ret |-> ret, api_calls |-> api_calls, gets |-> gets, searchVal |-> searchVal]

\* a sub-path that returns result before any lookup
Rejects(result) == Outcome(Ok(result), 0, 0, JNull)

\* a sub-path that ends in ret after the lookup call
After(call, ret) == Outcome(ret, 1, call.gets, call.searchVal)

\* geocode_postal_code once coords were extracted from the raw result
PostalCodeFound(result, call, coords) ==
    CASE coords.k = "raise" -> After(call, coords)
      [] coords.k = "none" ->
         After(call, Ok([result EXCEPT
                            !.error = JStr("Failed to extract valid coordinates")]))
      [] OTHER ->
         After(call, Ok([result EXCEPT
                            !.success = TRUE,
                            !.latitude = JNum(coords.v[1]),
                            !.longitude = JNum(coords.v[2]),
                            !.address = Get(call.ret.v.ADDRESS, Text(<<>>)),
                            !.building = Get(call.ret.v.BUILDING, JStr("")),
                            !.road = Get(call.ret.v.ROAD, JStr(""))]))

\* geocode_postal_code from the return of _make_api_call on
PostalCodeLookup(result, call) ==
    IF Found(call.ret)
    THEN PostalCodeFound(result, call, _extract_coordinates(call.ret.v))
    ELSE After(call, Ok([result EXCEPT
                            !.error = JStr("Postal code not found in OneMap database")]))

\* PostalCodeCleaned without "result['postal_code'] = cleaned_code"
PostalCodeCleaned_NotStored(result, cleaned_code, net) ==
    IF cleaned_code.k = "none"
    THEN Rejects([result EXCEPT !.error = JStr("Invalid postal code format")])
    ELSE PostalCodeLookup(result, _make_api_call(cleaned_code.v, net))

\* geocode_postal_code from the cleaned code on
PostalCodeCleaned(result, cleaned_code, net) ==
    IF cleaned_code.k = "none"
    THEN Rejects([result EXCEPT !.error = JStr("Invalid postal code format")])
    ELSE PostalCodeLookup([result EXCEPT !.postal_code = Text(cleaned_code.v)],
                          _make_api_call(cleaned_code.v, net))

geocode_postal_code(postal_code, net) ==
    PostalCodeCleaned(_create_result_dict(postal_code, "postal_code"),
                      clean_postal_code(postal_code), net)

\* WithPostalMatch without the "if postal_match:" assignment
WithPostalMatch_NotStored(result) ==
    IF result.address.t # "text" THEN Raise("TypeError") ELSE Ok(result)

\* "postal_match = re.search(...)" on result['address'] and the assignment
\* that follows it; a value that is no str makes re.search raise TypeError
WithPostalMatch(result) ==
    IF result.address.t # "text" THEN Raise("TypeError")
    ELSE IF re_search_postal(result.address.chars).k = "none" THEN Ok(result)
    ELSE Ok([result EXCEPT
                !.postal_code = Text(re_search_postal(result.address.chars).v)])

\* geocode_address once coords were extracted from the raw result
AddressFound(result, call, coords) ==
    CASE coords.k = "raise" -> After(call, coords)
      [] coords.k = "none" ->
         After(call, Ok([result EXCEPT
                            !.error = JStr("Failed to extract valid coordinates")]))
      [] OTHER ->
         After(call, WithPostalMatch(
                         [result EXCEPT
                             !.success = TRUE,
                             !.latitude = JNum(coords.v[1]),
                             !.longitude = JNum(coords.v[2]),
                             !.address = Get(call.ret.v.ADDRESS, Text(<<>>)),
                             !.building = Get(call.ret.v.BUILDING, JStr("")),
                             !.road = Get(call.ret.v.ROAD, JStr(""))]))

\* geocode_address from the return of _make_api_call on
AddressLookup(result, call) ==
    IF Found(call.ret)
    THEN AddressFound(result, call, _extract_coordinates(call.ret.v))
    ELSE After(call, Ok([result EXCEPT
                            !.error = JStr("Address not found in OneMap database")]))

\* AddressRejected without the "not address.strip()" test
AddressRejected_NoStrip(address) == EmptyOrNotStr(address)

\* the input test of geocode_address
AddressRejected(address) == BlankOrNotStr(address)

geocode_address(address, net) ==
    IF AddressRejected(address)
    THEN Rejects([_create_result_dict(address, "address") EXCEPT
                     !.error = JStr("Invalid address: empty or non-string input")])
    ELSE AddressLookup(_create_result_dict(address, "address"),
                       _make_api_call(strip(address.chars), net))

\* geocode_building once coords were extracted from the raw result
BuildingFound(result, call, coords) ==
    CASE coords.k = "raise" -> After(call, coords)
      [] coords.k = "none" ->
         After(call, Ok([result EXCEPT
                            !.error = JStr("Failed to extract valid coordinates")]))
      [] OTHER ->
         After(call, WithPostalMatch(
                         [result EXCEPT
                             !.success = TRUE,
                             !.latitude = JNum(coords.v[1]),
                             !.longitude = JNum(coords.v[2]),
                             !.address = Get(call.ret.v.ADDRESS, Text(<<>>)),
                             !.building = Get(call.ret.v.BUILDING, JStr("")),
                             !.road = Get(call.ret.v.ROAD, JStr(""))]))

\* geocode_building from the return of _make_api_call on
BuildingLookup(result, call) ==
    IF Found(call.ret)
    THEN BuildingFound(result, call, _extract_coordinates(call.ret.v))
    ELSE After(call, Ok([result EXCEPT
                            !.error = JStr("Building not found in OneMap database")]))

\* the input test of geocode_building
BuildingRejected(building_name) == BlankOrNotStr(building_name)

geocode_building(building_name, net) ==
    IF BuildingRejected(building_name)
    THEN Rejects([_create_result_dict(building_name, "building") EXCEPT
                     !.error = JStr("Invalid building name: empty or non-string input")])
    ELSE BuildingLookup(_create_result_dict(building_name, "building"),
                        _make_api_call(strip(building_name.chars), net))

\* "if postal_match:" of geocode on the stripped query
LooksLikeAddress(chars) == re_search_postal(chars).k # "none"

\* geocode from "query = query.strip()" on
GeocodeStripped(query, net) ==
    IF validate_postal_code(query) THEN geocode_postal_code(query, net)
    ELSE IF LooksLikeAddress(query.chars) THEN geocode_address(query, net)
    ELSE geocode_building(query, net)

geocode(query, net) ==
    IF BlankOrNotStr(query)
    THEN Rejects([_create_result_dict(query, "unknown") EXCEPT
                     !.error = JStr("Invalid query: empty or non-string input")])
    ELSE GeocodeStripped(Text(strip(query.chars)), net)

----------------------------------------------------------------------------
(* The geocoder as a state machine: one call per behaviour *)

QueryAlphabet == {"1", "a", " "}

\* arguments that are no str, and texts that the three-letter alphabet lacks
SpecialQueries ==
    {JNull, JNum(238874),
     Text(<<"2", "3", "8", "8", "7", "4">>),
     Text(<<" ", "0", "1", "8", "9", "8", "9", " ">>),
     Text(<<"2", "3", "-", "8", "8", "7", "4">>),
     Text(<<"R", "d", ",", "2", "3", "8", "8", "7", "4">>),
     Text(<<"1", " ", "R", "d", " ", "2", "3", "8", "8", "7", "4">>),
     Text(<<"I", "O", "N">>),
     Text(<<"0", "1", "8", "9", "5", "6">>),
     Text(<<"0", "7", "9", "-", "9", "0", "3">>),
     Text(<<"S", " ", "0", "9", "9", "2", "5", "3">>),
     Text(<<"1", "2", "3", "4", "5", "6">>)}

AddressWithPostal ==
    Text(<<"1", " ", "R", "d", " ", "S", " ", "1", "2", "3", "4", "5", "6">>)
AddressWithoutPostal == Text(<<"1", " ", "R", "d">>)
\* six digits in a row that follow a letter without a gap
AddressWithGluedDigits == Text(<<"R", "d", "1", "2", "3", "4", "5", "6">>)

\* the first result of a OneMap reply
RawResults ==
    {RawResult(JStr("1.3521"), JStr("103.8198"), AddressWithPostal,
               JStr("Tower"), JStr("Rd")),
     RawResult(JStr("1.3521"), JStr("103.8198"), AddressWithoutPostal,
               Missing, Missing),
     RawResult(JStr("1.3521"), JStr("103.8198"), AddressWithGluedDigits,
               Missing, Missing),
     RawResult(JStr("1.3521"), JStr("103.8198"), Missing, Missing, Missing),
     RawResult(JStr("1.3521"), JStr("103.8198"), JNull, JNull, JNull),
     RawResult(JStr("40.7128"), JStr("-74.0060"), AddressWithPostal,
               JStr("Tower"), JStr("Rd")),
     RawResult(JStr("invalid"), JStr("103.8198"), AddressWithPostal,
               JStr("Tower"), JStr("Rd")),
     RawResult(JStr("1.3521"), JNull, AddressWithPostal, JStr("Tower"), JStr("Rd")),
     RawResult(Missing, Missing, AddressWithPostal, JStr("Tower"), JStr("Rd")),
     RawResult(JStr("1.3521"), Missing, AddressWithPostal, JStr("Tower"), JStr("Rd")),
     RawResult(JStr("1.49"), JStr("103.8198"), AddressWithPostal,
               JStr("Tower"), JStr("Rd")),
     RawResult(Missing, Missing, Missing, Missing, Missing),
     JStr("unexpected")}

Reply(found, results) ==
    [kind |-> "json", body |-> [t |-> "obj", found |-> found, results |-> results]]
NotFoundReply == Reply(JNum(0), JList(<<>>))

\* what the OneMap endpoint can do
Nets ==
    {[kind |-> "timeout"], [kind |-> "connection_error"], [kind |-> "http_error"],
     [kind |-> "not_json"],
     [kind |-> "json", body |-> JList(<<JNull>>)],
     NotFoundReply,
     Reply(Missing, Missing),
     Reply(JNull, JList(<<>>)),
     Reply(JNum(1), Missing),
     Reply(JNum(1), JNull),
     Reply(JNum(1), JList(<<>>))}
    \cup {Reply(JNum(1), JList(<<raw>>)) : raw \in RawResults}
    \cup {Reply(JNum(1), JList(<<SAMPLE_GEOCODING_DATA[code]>>)) :
              code \in {<<"2", "3", "8", "8", "7", "4">>}}

GeocoderInit ==
    /\ \/ /\ \E n \in 0..MaxQueryLen :
               \E chars \in [1..n -> QueryAlphabet] : g_query = Text(chars)
          /\ g_net = NotFoundReply
       \/ /\ g_query \in SpecialQueries
          /\ g_net \in Nets
    /\ g_called = "none"
    /\ g_out = NotCalled
    /\ LightningIdle
    /\ BoundsIdle
    /\ BatchIdle
    /\ WebIdle
    /\ clock = 0

\* SingaporeGeocoder.geocode(query)
Geocode ==
    /\ g_called = "none"
    /\ g_called' = "geocode"
    /\ g_out' = geocode(g_query, g_net)
    /\ UNCHANGED <<g_query, g_net, lvars, bvars, tvars, wvars>>
    /\ Tick

\* SingaporeGeocoder.geocode_postal_code(postal_code)
GeocodePostalCode ==
    /\ g_called = "none"
    /\ g_called' = "geocode_postal_code"
    /\ g_out' = geocode_postal_code(g_query, g_net)
    /\ UNCHANGED <<g_query, g_net, lvars, bvars, tvars, wvars>>
    /\ Tick

\* SingaporeGeocoder.geocode_address(address)
GeocodeAddress ==
    /\ g_called = "none"
    /\ g_called' = "geocode_address"
    /\ g_out' = geocode_address(g_query, g_net)
    /\ UNCHANGED <<g_query, g_net, lvars, bvars, tvars, wvars>>
    /\ Tick

\* SingaporeGeocoder.geocode_building(building_name)
GeocodeBuilding ==
    /\ g_called = "none"
    /\ g_called' = "geocode_building"
    /\ g_out' = geocode_building(g_query, g_net)
    /\ UNCHANGED <<g_query, g_net, lvars, bvars, tvars, wvars>>
    /\ Tick

GeocoderNext ==
    \/ Geocode
    \/ GeocodePostalCode
    \/ GeocodeAddress
    \/ GeocodeBuilding

GeocoderSpec == GeocoderInit /\ [][GeocoderNext]_vars

----------------------------------------------------------------------------
(* The two bounds checks of the geocoder on one point *)

LatStrings == {"1.15", "1.16", "1.17", "1.3521", "1.47", "1.48", "1.49", "40.7128"}
LonStrings ==
    {"103.58", "103.59", "103.60", "103.8198", "104.03", "104.04", "104.05",
     "-74.0060"}

BoundsInit ==
    /\ b_point \in LatStrings \X LonStrings
    /\ b_called = "none"
    /\ b_out = NotCalled
    /\ LightningIdle
    /\ GeocoderIdle
    /\ BatchIdle
    /\ WebIdle
    /\ clock = 0

\* SingaporeGeocoder.is_valid_singapore_coordinates(latitude, longitude)
IsValidSingaporeCoordinates ==
    /\ b_called = "none"
    /\ b_called' = "is_valid_singapore_coordinates"
    /\ b_out' = Ok(is_valid_singapore_coordinates(FloatOfStr[b_point[1]],
                                                  FloatOfStr[b_point[2]]))
    /\ UNCHANGED <<b_point, lvars, gvars, tvars, wvars, clock>>

\* SingaporeGeocoder._extract_coordinates(geocoding_result)
ExtractPoint ==
    /\ b_called = "none"
    /\ b_called' = "_extract_coordinates"
    /\ b_out' = _extract_coordinates(
                    RawResult(JStr(b_point[1]), JStr(b_point[2]),
                              Missing, Missing, Missing))
    /\ UNCHANGED <<b_point, lvars, gvars, tvars, wvars, clock>>

BoundsNext ==
    \/ IsValidSingaporeCoordinates
    \/ ExtractPoint

BoundsSpec == BoundsInit /\ [][BoundsNext]_vars

----------------------------------------------------------------------------
\* the strict box, edges included, in micro-degrees
InsideStrictBox(point) ==
    /\ 1160000 <= FloatOfStr[point[1]] /\ FloatOfStr[point[1]] <= 1480000
    /\ 103590000 <= FloatOfStr[point[2]] /\ FloatOfStr[point[2]] <= 104040000

(* C8: the bounds predicate is inclusive on all four edges:                *)
(* is_valid_singapore_coordinates(lat, lon) is true exactly when           *)
(* 1.16 <= lat <= 1.48 and 103.59 <= lon <= 104.04, and the gate inside    *)
(* _extract_coordinates accepts exactly the same points.                   *)
C8_BoundsInclusive ==
    /\ b_called = "is_valid_singapore_coordinates" =>
           (b_out.v <=> InsideStrictBox(b_point))
    /\ b_called = "_extract_coordinates" =>
           /\ b_out.k = "ok" <=> InsideStrictBox(b_point)
           /\ b_out.k # "ok" => b_out = None
           /\ b_out.k = "ok" =>
                  b_out.v = <<FloatOfStr[b_point[1]], FloatOfStr[b_point[2]]>>

\* the corner of the box is inside
C8_Witness ==
    /\ b_called = "is_valid_singapore_coordinates"
    /\ b_point = <<"1.16", "103.59">>
    /\ b_out.v

\* a text of nothing but whitespace, or an argument that is no text
Blank(q) == q.t # "text" \/ \A i \in DOMAIN q.chars : q.chars[i] = " "

\* the text without its leading and trailing whitespace
Trimmed(chars) ==
    IF \A i \in DOMAIN chars : chars[i] = " " THEN <<>>
    ELSE SubSeq(chars,
                CHOOSE i \in DOMAIN chars :
                    chars[i] # " " /\ \A h \in 1..(i - 1) : chars[h] = " ",
                CHOOSE i \in DOMAIN chars :
                    chars[i] # " " /\ \A h \in (i + 1)..Len(chars) : chars[h] = " ")

DigitCount(chars) == Cardinality({i \in DOMAIN chars : chars[i] \in Digits})

\* six digits in a row somewhere, with no digit on either side
HasSixDigitRun(chars) ==
    \E i \in 1..(Len(chars) - 5) :
        /\ \A h \in i..(i + 5) : chars[h] \in Digits
        /\ i > 1 => chars[i - 1] \notin Digits
        /\ i + 6 <= Len(chars) => chars[i + 6] \notin Digits

\* six digits in a row with no letter, digit or underscore on either side
HasDelimitedSixDigitRun(chars) ==
    \E i \in 1..(Len(chars) - 5) :
        /\ \A h \in i..(i + 5) : chars[h] \in Digits
        /\ i > 1 => chars[i - 1] \notin Digits \cup Letters \cup {"_"}
        /\ i + 6 <= Len(chars) => chars[i + 6] \notin Digits \cup Letters \cup {"_"}

\* the kind of a query under the classification order, with the given
\* reading of "contains a six-digit run"
KindOf(q, hasRun(_)) ==
    IF Blank(q) THEN "unknown"
    ELSE IF DigitCount(q.chars) = 6 THEN "postal_code"
    ELSE IF hasRun(Trimmed(q.chars)) THEN "address"
    ELSE "building"

(* C9 as stated: geocode() classifies by the first matching rule: empty or *)
(* non-text input gives unknown; a query that reduces to exactly six       *)
(* digits gives postal_code; a query that contains a six-digit run         *)
(* anywhere inside a longer string gives address; every other query gives  *)
(* building; query_type is that kind.                                      *)
C9_ClassifiesBySixDigitRun ==
    (g_called = "geocode" /\ g_out.ret.k = "ok") =>
        g_out.ret.v.query_type = KindOf(g_query, HasSixDigitRun)

(* C9, amended: geocode() classifies by the first matching rule: empty,    *)
(* whitespace-only or non-text input gives unknown; a query that reduces   *)
(* to exactly six digits gives postal_code; a query that contains a        *)
(* six-digit run with no letter, digit or underscore directly before or    *)
(* after it gives address; every other query gives building; query_type is *)
(* that kind.                                                              *)
C9_ClassifiesByDelimitedRun ==
    (g_called = "geocode" /\ g_out.ret.k = "ok") =>
        g_out.ret.v.query_type = KindOf(g_query, HasDelimitedSixDigitRun)

\* a query of seven digits holding a delimited six-digit run is an address
C9_Witness ==
    /\ g_called = "geocode"
    /\ g_out.ret.k = "ok"
    /\ g_query.t = "text"
    /\ DigitCount(g_query.chars) = 7
    /\ g_out.ret.v.query_type = "address"

InvalidInputErrors ==
    [geocode |-> JStr("Invalid query: empty or non-string input"),
     geocode_address |-> JStr("Invalid address: empty or non-string input"),
     geocode_building |-> JStr("Invalid building name: empty or non-string input")]

(* C10: geocode, geocode_address and geocode_building reject an empty,     *)
(* whitespace-only or non-text query with success=false and an             *)
(* invalid-input error, without any network or table lookup; for every     *)
(* other input geocode_address and geocode_building attempt the lookup,    *)
(* with the stripped text, whatever its content.                           *)
C10_RejectsBlankElseLooksUp ==
    g_called \in {"geocode", "geocode_address", "geocode_building"} =>
        /\ Blank(g_query) =>
               /\ g_out.api_calls = 0
               /\ g_out.gets = 0
               /\ g_out.ret.k = "ok"
               /\ ~g_out.ret.v.success
               /\ g_out.ret.v.error = InvalidInputErrors[g_called]
               /\ g_out.ret.v.latitude = JNull
        /\ (~Blank(g_query) /\ g_called # "geocode") =>
               /\ g_out.api_calls = 1
               /\ g_out.searchVal = Text(Trimmed(g_query.chars))

\* geocode_address turned a whitespace-only text away without a lookup
C10_Witness ==
    /\ g_called = "geocode_address"
    /\ g_query.t = "text"
    /\ Len(g_query.chars) = 2
    /\ Blank(g_query)
    /\ g_out.api_calls = 0
    /\ ~g_out.ret.v.success

----------------------------------------------------------------------------
\* the five postal codes of the static table
TableCodes ==
    {<<"2", "3", "8", "8", "7", "4">>, <<"0", "1", "8", "9", "8", "9">>,
     <<"0", "1", "8", "9", "5", "6">>, <<"0", "7", "9", "9", "0", "3">>,
     <<"0", "9", "9", "2", "5", "3">>}

\* the digits of a text, in order
DigitsOf(chars) ==
    [i \in 1..DigitCount(chars) |->
        chars[CHOOSE j \in DOMAIN chars :
                  /\ chars[j] \in Digits
                  /\ Cardinality({h \in 1..j : chars[h] \in Digits}) = i]]

\* whether result carries the fields of the raw entry, coordinates as numbers
CarriesEntry(result, entry) ==
    /\ result.success
    /\ result.error = JNull
    /\ result.latitude = JNum(FloatOfStr[entry.LATITUDE.s])
    /\ result.longitude = JNum(FloatOfStr[entry.LONGITUDE.s])
    /\ result.address = entry.ADDRESS
    /\ result.building = entry.BUILDING
    /\ result.road = entry.ROAD

(* C11: a postal code of the static table never triggers a network call:   *)
(* for a query in any surface form that cleans to a table code, geocode    *)
(* and geocode_postal_code issue no HTTP request and return success=true   *)
(* with the latitude, longitude, address, building and road of the table   *)
(* entry, which are the fields the same entry gives when it arrives as a   *)
(* network result.                                                         *)
C11_TableHitMakesNoRequest ==
    (g_called \in {"geocode", "geocode_postal_code"} /\ g_query.t = "text") =>
        /\ DigitsOf(g_query.chars) \in TableCodes =>
               /\ g_out.gets = 0
               /\ g_out.ret.k = "ok"
               /\ g_out.ret.v.query_type = "postal_code"
               /\ g_out.ret.v.postal_code = Text(DigitsOf(g_query.chars))
               /\ CarriesEntry(g_out.ret.v,
                               SAMPLE_GEOCODING_DATA[DigitsOf(g_query.chars)])
        /\ (/\ DigitCount(g_query.chars) = 6
            /\ DigitsOf(g_query.chars) \notin TableCodes
            /\ \E code \in TableCodes :
                   g_net = Reply(JNum(1), JList(<<SAMPLE_GEOCODING_DATA[code]>>))) =>
               /\ g_out.gets = 1
               /\ g_out.ret.k = "ok"
               /\ \E code \in TableCodes :
                      /\ g_net = Reply(JNum(1), JList(<<SAMPLE_GEOCODING_DATA[code]>>))
                      /\ CarriesEntry(g_out.ret.v, SAMPLE_GEOCODING_DATA[code])

\* geocode answered a hyphenated table code from the table while the network
\* was down
C11_Witness ==
    /\ g_called = "geocode"
    /\ g_query = Text(<<"0", "7", "9", "-", "9", "0", "3">>)
    /\ g_net.kind = "timeout"
    /\ g_out.gets = 0
    /\ g_out.ret.v.success

----------------------------------------------------------------------------
GeocodeMethods ==
    {"geocode", "geocode_postal_code", "geocode_address", "geocode_building"}

(* C12: every GeoResult returned by geocode, geocode_postal_code,          *)
(* geocode_address or geocode_building is either a success with non-null   *)
(* latitude and longitude and a null error, or a failure with a non-null   *)
(* error and null latitude and longitude, and never anything else.         *)
C12_SuccessXorError ==
    (g_called \in GeocodeMethods /\ g_out.ret.k = "ok") =>
        \/ /\ g_out.ret.v.success
           /\ g_out.ret.v.latitude.t = "num"
           /\ g_out.ret.v.longitude.t = "num"
           /\ g_out.ret.v.error = JNull
        \/ /\ ~g_out.ret.v.success
           /\ g_out.ret.v.error.t = "str"
           /\ g_out.ret.v.latitude = JNull
           /\ g_out.ret.v.longitude = JNull

\* geocode_building succeeded on a network result
C12_Witness ==
    /\ g_called = "geocode_building"
    /\ g_out.gets = 1
    /\ g_out.ret.k = "ok"
    /\ g_out.ret.v.success
    /\ g_out.ret.v.latitude.t = "num"

----------------------------------------------------------------------------
(* C13: geocode_postal_code validates the raw format before any lookup:    *)
(* when the input is no text or does not reduce to exactly six digits      *)
(* after stripping all non-digit characters, it returns success=false with *)
(* the invalid-format error and null coordinates, and neither the table    *)
(* nor the network is consulted; an input that does reduce to six digits   *)
(* is looked up.                                                           *)
C13_InvalidFormatBeforeLookup ==
    g_called = "geocode_postal_code" =>
        IF g_query.t = "text" /\ DigitCount(g_query.chars) = 6
        THEN /\ g_out.api_calls = 1
             /\ g_out.searchVal = Text(DigitsOf(g_query.chars))
        ELSE /\ g_out.api_calls = 0
             /\ g_out.gets = 0
             /\ g_out.ret.k = "ok"
             /\ ~g_out.ret.v.success
             /\ g_out.ret.v.error = JStr("Invalid postal code format")
             /\ g_out.ret.v.latitude = JNull
             /\ g_out.ret.v.longitude = JNull
             /\ g_out.ret.v.postal_code = JNull

\* a text of seven digits was turned away without a lookup
C13_Witness ==
    /\ g_called = "geocode_postal_code"
    /\ g_query.t = "text"
    /\ DigitCount(g_query.chars) = 7
    /\ g_out.api_calls = 0
    /\ g_out.ret.v.error = JStr("Invalid postal code format")

----------------------------------------------------------------------------
\* the one raw result the network handed to the call, when it did
HandedRaw(raw) ==
    /\ g_called \in GeocodeMethods
    /\ g_out.api_calls = 1
    /\ g_out.gets = 1
    /\ g_net = Reply(JNum(1), JList(<<raw>>))
    /\ raw.t = "obj"

\* a coordinate field that is present and reads as a number
ReadsAsNumber(v) ==
    \/ v.t = "num"
    \/ v.t = "str" /\ v.s \in DOMAIN FloatOfStr

\* latitude or longitude missing or no number, or the point outside the box
Unusable(raw) ==
    \/ ~ReadsAsNumber(raw.LATITUDE)
    \/ ~ReadsAsNumber(raw.LONGITUDE)
    \/ ~InsideStrictBox(<<raw.LATITUDE.s, raw.LONGITUDE.s>>)

\* the result is the invalid-coordinates failure and carries nothing of raw
IsInvalidCoordinates(out) ==
    /\ out.ret.k = "ok"
    /\ ~out.ret.v.success
    /\ out.ret.v.error = JStr("Failed to extract valid coordinates")
    /\ out.ret.v.latitude = JNull
    /\ out.ret.v.longitude = JNull
    /\ out.ret.v.address = JNull
    /\ out.ret.v.building = JNull
    /\ out.ret.v.road = JNull

HasSomeField(raw) ==
    \E f \in {"LATITUDE", "LONGITUDE", "ADDRESS", "BUILDING", "ROAD"} :
        raw[f] # Missing

(* C14 as stated: when the raw result's latitude or longitude is missing   *)
(* or does not parse as a number, and equally when the parsed point lies   *)
(* outside the strict box, the GeoResult built from that raw result is     *)
(* unsuccessful with the invalid-coordinates error and carries no          *)
(* latitude, longitude or address fields of the raw result.                *)
C14_UnusableGivesInvalidCoordinates ==
    \A raw \in RawResults :
        (HandedRaw(raw) /\ Unusable(raw)) => IsInvalidCoordinates(g_out)

(* C14, amended: for a raw result that has at least one field, a latitude  *)
(* or longitude that is missing or does not parse as a number, and equally *)
(* a parsed point outside the strict box, gives an unsuccessful GeoResult  *)
(* with the invalid-coordinates error and no latitude, longitude or        *)
(* address fields of the raw result; a raw result with no field at all is  *)
(* reported as not found.                                                  *)
C14_NonEmptyUnusableGivesInvalidCoordinates ==
    \A raw \in RawResults :
        (HandedRaw(raw) /\ Unusable(raw)) =>
            IF HasSomeField(raw) THEN IsInvalidCoordinates(g_out)
            ELSE /\ g_out.ret.k = "ok"
                 /\ ~g_out.ret.v.success
                 /\ g_out.ret.v.error \in
                        {JStr("Postal code not found in OneMap database"),
                         JStr("Address not found in OneMap database"),
                         JStr("Building not found in OneMap database")}

\* geocode_address got a point outside the box and reported invalid
\* coordinates
C14_Witness ==
    /\ HandedRaw(RawResult(JStr("1.49"), JStr("103.8198"), AddressWithPostal,
                           JStr("Tower"), JStr("Rd")))
    /\ g_called = "geocode_address"
    /\ IsInvalidCoordinates(g_out)

----------------------------------------------------------------------------
(* Both adapters side by side: one weather call and one geocoding call *)

\* three bodies of the weather API: strikes, an API error, nothing
AdapterResponses ==
    {Response(JNum(0), Missing,
              Data(Missing, JList(<<Period(JStr(T1), Item(JList(<<ReadingInside>>)))>>))),
     Response(JNum(1), JStr("API Error"), Missing),
     Response(Missing, Missing, Missing)}

AdaptersInit ==
    /\ \/ transport = "ok" /\ api_response \in AdapterResponses
       \/ transport \in TransportFailures /\ api_response = JNull
    /\ called = "none"
    /\ raw_data = NotCalled
    /\ parsed = NotCalled
    /\ coordinates = NotCalled
    /\ valid_count = 0
    /\ summary = NotCalled
    /\ http_gets = 0
    /\ g_query \in SpecialQueries
    /\ g_net \in Nets
    /\ g_called = "none"
    /\ g_out = NotCalled
    /\ BoundsIdle
    /\ BatchIdle
    /\ WebIdle
    /\ clock = 0

AdaptersNext ==
    \/ FetchLightningData
    \/ GetLightningSummary
    \/ Geocode
    \/ GeocodePostalCode
    \/ GeocodeAddress
    \/ GeocodeBuilding

AdaptersSpec == AdaptersInit /\ [][AdaptersNext]_vars

NotFoundErrors ==
    [postal_code |-> JStr("Postal code not found in OneMap database"),
     address |-> JStr("Address not found in OneMap database"),
     building |-> JStr("Building not found in OneMap database")]

(* C15: a timeout, a connection error, a non-success HTTP status and a     *)
(* body that is not valid JSON all count as "no data": fetch_lightning_data *)
(* returns None and never raises (and get_lightning_summary then returns   *)
(* the fetch failure), and a geocode call whose lookup hits such a failure *)
(* returns success=false with the not-found error of its sub-path.         *)
C15_TransportFailureIsNoData ==
    /\ (called \in {"fetch", "summary"} /\ transport \in TransportFailures) =>
           raw_data = None
    /\ (called = "summary" /\ transport \in TransportFailures) =>
           /\ summary.k = "ok"
           /\ summary.v = [FetchFailure EXCEPT !.timestamp = summary.v.timestamp]
    /\ (g_called \in GeocodeMethods /\ g_out.gets = 1
            /\ g_net.kind \in TransportFailures) =>
           /\ g_out.ret.k = "ok"
           /\ ~g_out.ret.v.success
           /\ g_out.ret.v.error = NotFoundErrors[g_out.ret.v.query_type]
           /\ g_out.ret.v.latitude = JNull
           /\ g_out.ret.v.longitude = JNull

\* the weather API timed out and OneMap answered with a body that is no JSON
C15_Witness ==
    /\ called = "fetch"
    /\ transport = "timeout"
    /\ raw_data = None
    /\ g_called = "geocode"
    /\ g_net.kind = "not_json"
    /\ g_out.gets = 1
    /\ g_out.ret.v.error = NotFoundErrors["building"]

----------------------------------------------------------------------------
(* batch_geocode: the loop over the queries, one geocode call per step *)

\* the missing value of a float64 column
NaN == [t |-> "nan"]

\* whether pandas gives the column of field the dtype float64
FloatColumn(results, field) ==
    \E i \in DOMAIN results : results[i][field].t = "num"

\* a cell of the frame: None in a float64 column is stored as NaN
Cell(results, field, v) ==
    IF v = JNull /\ FloatColumn(results, field) THEN NaN ELSE v

\* pd.DataFrame(results): one row per dictionary, in list order
DataFrame(results) ==
    [i \in DOMAIN results |->
        [results[i] EXCEPT
            !.latitude = Cell(results, "latitude", @),
            !.longitude = Cell(results, "longitude", @)]]

GoodRaw ==
    RawResult(JStr("1.3521"), JStr("103.8198"), AddressWithPostal,
              JStr("Tower"), JStr("Rd"))

\* a query of the batch together with what OneMap does when asked about it
BatchCase(query, net) == [query |-> query, net |-> net]

BatchCases ==
    {BatchCase(Text(<<"2", "3", "8", "8", "7", "4">>), [kind |-> "timeout"]),
     BatchCase(JNull, [kind |-> "timeout"]),
     BatchCase(Text(<<"I", "O", "N">>), [kind |-> "timeout"]),
     BatchCase(Text(<<"I", "O", "N">>), NotFoundReply),
     BatchCase(Text(<<"I", "O", "N">>), Reply(JNum(1), JList(<<GoodRaw>>))),
     BatchCase(Text(<<"R", "d", ",", "2", "3", "8", "8", "7", "4", "1">>),
               Reply(JNum(1), JList(<<GoodRaw>>))),
     BatchCase(Text(<<"I", "O", "N">>),
               Reply(JNum(1), JList(<<RawResult(JStr("40.7128"), JStr("-74.0060"),
                                                AddressWithPostal, JStr("Tower"),
                                                JStr("Rd"))>>))),
     BatchCase(Text(<<"I", "O", "N">>),
               Reply(JNum(1), JList(<<RawResult(JStr("1.3521"), JStr("103.8198"),
                                                Missing, Missing, Missing)>>))),
     BatchCase(Text(<<"I", "O", "N">>),
               Reply(JNum(1), JList(<<RawResult(JStr("1.3521"), JStr("103.8198"),
                                                JNull, JNull, JNull)>>)))}

BatchInit ==
    /\ \E n \in 0..MaxBatch : t_in \in [1..n -> BatchCases]
    /\ t_status = "idle"
    /\ t_results = <<>>
    /\ t_df = NotCalled
    /\ t_sleeps = 0
    /\ t_gets = 0
    /\ LightningIdle
    /\ GeocoderIdle
    /\ BoundsIdle
    /\ WebIdle
    /\ clock = 0

\* batch_geocode(queries, delay) up to the loop
BatchGeocode ==
    /\ t_status = "idle"
    /\ t_status' = "running"
    /\ t_results' = <<>>
    /\ UNCHANGED <<t_in, t_df, t_sleeps, t_gets, lvars, gvars, bvars, wvars, clock>>

\* whether the loop sleeps after query number i
SleepsAfter(i, queries) == i < Len(queries)

\* the rest of one pass of the loop, given what geocode(query) did
BatchAfterGeocode(i, out) ==
    /\ t_gets' = t_gets + out.gets
    /\ IF out.ret.k = "raise"
       THEN /\ t_status' = "raised"
            /\ t_df' = out.ret
            /\ UNCHANGED <<t_results, t_sleeps>>
       ELSE /\ t_results' = Append(t_results, out.ret.v)
            /\ t_sleeps' = t_sleeps + (IF SleepsAfter(i, t_in) THEN 1 ELSE 0)
            /\ UNCHANGED <<t_status, t_df>>

\* one pass of "for i, query in enumerate(queries, 1)"
BatchGeocodeStep ==
    /\ t_status = "running"
    /\ Len(t_results) < Len(t_in)
    /\ BatchAfterGeocode(Len(t_results) + 1,
                         geocode(t_in[Len(t_results) + 1].query,
                                 t_in[Len(t_results) + 1].net))
    /\ UNCHANGED <<t_in, lvars, gvars, bvars, wvars>>
    /\ Tick

\* batch_geocode after the loop: the frame is built and returned
BatchReturn ==
    /\ t_status = "running"
    /\ Len(t_results) = Len(t_in)
    /\ t_status' = "done"
    /\ t_df' = Ok(DataFrame(t_results))
    /\ UNCHANGED <<t_in, t_results, t_sleeps, t_gets, lvars, gvars, bvars, wvars, clock>>

BatchNext ==
    \/ BatchGeocode
    \/ BatchGeocodeStep
    \/ BatchReturn

BatchSpec == BatchInit /\ [][BatchNext]_vars

\* whether row is the GeoResult that geocoding the case gives
RowIsResultOf(row, case, out) ==
    /\ out.ret.k = "ok"
    /\ row.query = case.query
    /\ row.query_type = out.ret.v.query_type
    /\ row.success = out.ret.v.success
    /\ row.error = out.ret.v.error
    /\ row.address = out.ret.v.address
    /\ row.postal_code = out.ret.v.postal_code
    /\ row.success =>
           /\ row.latitude = out.ret.v.latitude
           /\ row.longitude = out.ret.v.longitude
    /\ ~row.success =>
           /\ row.latitude \in {JNull, NaN}
           /\ row.longitude \in {JNull, NaN}

BatchEnded == t_status \in {"done", "raised"}

(* C16: batch_geocode returns exactly one result per input query, in input *)
(* order: once a call on n queries has ended, it has returned a frame of n *)
(* rows and row i is the GeoResult of geocoding the i-th query, whatever   *)
(* mix of successes and failures occurs.                                   *)
C16_OneRowPerQueryInOrder ==
    BatchEnded =>
        /\ t_df.k = "ok"
        /\ Len(t_df.v) = Len(t_in)
        /\ \A i \in DOMAIN t_in :
               RowIsResultOf(t_df.v[i], t_in[i], geocode(t_in[i].query, t_in[i].net))

(* C17: batch_geocode has no partial-batch short-circuit: whatever happens *)
(* while geocoding query i, a found result with null fields included, the  *)
(* loop geocodes every later query and the call ends only after it has a   *)
(* result for each query.                                                  *)
C17_NoShortCircuit ==
    BatchEnded => (t_status = "done" /\ Len(t_results) = Len(t_in))

----------------------------------------------------------------------------
(* MapGenerator and the web application *)

\* the marker either renderer draws for one coordinate entry
MarkerOf(coord) ==
    [lat |-> coord.latitude, lng |-> coord.longitude, type |-> coord.type,
     description |-> coord.description, datetime |-> coord.datetime]

\* create_singapore_map(coordinates): the page with one marker per entry
create_singapore_map(coords) ==
    [t |-> "html", markers |-> [i \in DOMAIN coords |-> MarkerOf(coords[i])]]

\* the map a handler renders for lightning_data
MapFor(lightning_data) ==
    IF lightning_data.success THEN create_singapore_map(lightning_data.coordinates)
    ELSE create_singapore_map(<<>>)

\* what the weather API does for the next request
WebUpstream(kind, body) == [transport |-> kind, body |-> body]

StrikesAt(datetime, readings) ==
    Response(JNum(0), JStr(""), Data(Missing, JList(<<Period(datetime, Item(JList(readings)))>>)))

WebUpstreams ==
    {WebUpstream("ok", StrikesAt(JStr(T1), <<ReadingInside>>)),
     WebUpstream("ok", StrikesAt(JStr(T2), <<ReadingInside, ReadingOutside>>)),
     WebUpstream("ok", StrikesAt(JStr(T2), <<>>)),
     WebUpstream("ok", Response(JNum(1), JStr("API Error"), Missing)),
     WebUpstream("ok", Response(JNum(0), JStr(""), JNull)),
     WebUpstream("timeout", JNull),
     WebUpstream("http_error", JNull)}

WebInit ==
    /\ \E up \in WebUpstreams : transport = up.transport /\ api_response = up.body
    /\ called = "none"
    /\ raw_data = NotCalled
    /\ parsed = NotCalled
    /\ coordinates = NotCalled
    /\ valid_count = 0
    /\ summary = NotCalled
    /\ http_gets = 0
    /\ w_cache = EmptyCache
    /\ w_good = None
    /\ w_response = NotCalled
    /\ w_requests = 0
    /\ GeocoderIdle
    /\ BoundsIdle
    /\ BatchIdle
    /\ clock = 0

\* the weather API starts to behave differently
UpstreamChanges ==
    /\ \E up \in WebUpstreams :
           /\ <<up.transport, up.body>> # <<transport, api_response>>
           /\ transport' = up.transport
           /\ api_response' = up.body
    /\ UNCHANGED <<called, raw_data, parsed, coordinates, valid_count, summary,
                   http_gets, gvars, bvars, tvars, wvars, clock>>

\* what a request leaves alone besides the cache and the response
WebFrame ==
    UNCHANGED <<transport, api_response, called, raw_data, parsed, coordinates,
                valid_count, summary, gvars, bvars, tvars>>

\* CacheUpdated that keeps the map of the slot when the fetch failed
CacheUpdated_StaleMap(lightning_data) ==
    [last_update |-> JStr(Now), data |-> lightning_data,
     map_html |-> IF lightning_data.success THEN MapFor(lightning_data)
                  ELSE w_cache.map_html]

\* "lightning_cache[...] = ..." of index and refresh_lightning_data
CacheUpdated(lightning_data) ==
    [last_update |-> JStr(Now), data |-> lightning_data,
     map_html |-> MapFor(lightning_data)]

\* data and map of a fetch that succeeded, else what was remembered before
LatestGood(lightning_data, before) ==
    IF lightning_data.success
    THEN Ok([data |-> lightning_data, map_html |-> MapFor(lightning_data)])
    ELSE before

ErrorData(exc) ==
    [success |-> FALSE, error |-> exc, coordinates |-> <<>>, total_strikes |-> 0]

\* index(request), given the result r of get_lightning_summary()
IndexAfter(r) ==
    IF r.k = "raise"
    THEN /\ w_response' = [kind |-> "page", status |-> 200,
                           lightning_data |-> ErrorData(r.exc),
                           map_html |-> create_singapore_map(<<>>),
                           last_update |-> JStr(Now), error |-> JStr(r.exc)]
         /\ UNCHANGED <<w_cache, w_good>>
    ELSE /\ w_cache' = CacheUpdated(r.v)
         /\ w_good' = LatestGood(r.v, w_good)
         /\ w_response' = [kind |-> "page", status |-> 200,
                           lightning_data |-> r.v,
                           map_html |-> MapFor(r.v),
                           last_update |-> JStr(Now), error |-> Missing]

\* GET /
Index ==
    /\ w_requests < MaxRequests
    /\ w_requests' = w_requests + 1
    /\ http_gets' = http_gets + 1
    /\ IndexAfter(get_lightning_summary(fetch_lightning_data))
    /\ WebFrame
    /\ Tick

\* refresh_lightning_data(), given the result r of get_lightning_summary()
RefreshAfter(r) ==
    IF r.k = "raise"
    THEN /\ w_response' = [kind |-> "json", status |-> 500, success |-> FALSE,
                           error |-> JStr(r.exc), last_update |-> JStr(Now)]
         /\ UNCHANGED <<w_cache, w_good>>
    ELSE /\ w_cache' = CacheUpdated(r.v)
         /\ w_good' = LatestGood(r.v, w_good)
         /\ w_response' = [kind |-> "json", status |-> 200, success |-> TRUE,
                           lightning_data |-> r.v,
                           map_html |-> MapFor(r.v),
                           last_update |-> JStr(Now)]

\* GET /api/refresh
RefreshLightningData ==
    /\ w_requests < MaxRequests
    /\ w_requests' = w_requests + 1
    /\ http_gets' = http_gets + 1
    /\ RefreshAfter(get_lightning_summary(fetch_lightning_data))
    /\ WebFrame
    /\ Tick

\* get_lightning_data(), given the result r of get_lightning_summary()
LightningDataAfter(r) ==
    IF r.k = "raise"
    THEN [kind |-> "json", status |-> 500,
          content |-> [ErrorData(r.exc) EXCEPT !.error = JStr(r.exc)]]
    ELSE [kind |-> "json", status |-> 200, content |-> r.v]

\* GET /api/lightning
GetLightningData ==
    /\ w_requests < MaxRequests
    /\ w_requests' = w_requests + 1
    /\ http_gets' = http_gets + 1
    /\ w_response' = LightningDataAfter(get_lightning_summary(fetch_lightning_data))
    /\ UNCHANGED <<w_cache, w_good>>
    /\ WebFrame
    /\ Tick

\* GET /api/status
GetStatus ==
    /\ w_requests < MaxRequests
    /\ w_requests' = w_requests + 1
    /\ w_response' = [kind |-> "json", status |-> 200,
                      last_update |-> w_cache.last_update,
                      has_cached_data |-> w_cache.data # JNull]
    /\ UNCHANGED <<w_cache, w_good, http_gets>>
    /\ WebFrame
    /\ Tick

\* map_only() when nothing is cached, given the result r of the fetch
MapOnlyAfter(r) ==
    IF r.k = "raise"
    THEN [kind |-> "html", status |-> 200, content |-> create_singapore_map(<<>>)]
    ELSE [kind |-> "html", status |-> 200,
          content |-> create_singapore_map(r.v.coordinates)]

\* GET /map-only
MapOnly ==
    /\ w_requests < MaxRequests
    /\ w_requests' = w_requests + 1
    /\ IF w_cache.map_html # JNull
       THEN /\ w_response' = [kind |-> "html", status |-> 200,
                              content |-> w_cache.map_html]
            /\ UNCHANGED <<http_gets, clock>>
       ELSE /\ w_response' = MapOnlyAfter(get_lightning_summary(fetch_lightning_data))
            /\ http_gets' = http_gets + 1
            /\ Tick
    /\ UNCHANGED <<w_cache, w_good>>
    /\ WebFrame

\* GET /health
HealthCheck ==
    /\ w_requests < MaxRequests
    /\ w_requests' = w_requests + 1
    /\ w_response' = [kind |-> "json", status |-> 200,
                      content |-> [status |-> "ok", timestamp |-> JStr(Now)]]
    /\ UNCHANGED <<w_cache, w_good, http_gets>>
    /\ WebFrame
    /\ Tick

WebNext ==
    \/ UpstreamChanges
    \/ Index
    \/ RefreshLightningData
    \/ GetLightningData
    \/ GetStatus
    \/ MapOnly
    \/ HealthCheck

WebSpec == WebInit /\ [][WebNext]_vars

(* C18: after any sequence of page and refresh requests, a fetch that      *)
(* fails does not corrupt the previously cached result: once some fetch    *)
(* of a page or refresh request has succeeded, the cache slot holds the    *)
(* data and map of the most recent such fetch.                             *)
C18_CacheKeepsLatestGood ==
    w_good.k = "ok" =>
        /\ w_cache.data = w_good.v.data
        /\ w_cache.map_html = w_good.v.map_html

----------------------------------------------------------------------------
\* two parse results that differ at most in the creation timestamp
SameApartFromTimestamp(first, second) ==
    /\ first.k = second.k
    /\ first.k = "raise" => first = second
    /\ first.k = "ok" =>
           [first.v EXCEPT !.timestamp = ""] = [second.v EXCEPT !.timestamp = ""]

----------------------------------------------------------------------------
\* whether geocode answers the query without asking the network
AnsweredLocally(q) ==
    \/ Blank(q)
    \/ DigitCount(q.chars) = 6 /\ DigitsOf(q.chars) \in TableCodes

(* C20: each call makes a single attempt with no retry: one                *)
(* get_lightning_summary call (and one fetch_lightning_data call) issues   *)
(* exactly one HTTP GET whatever the outcome, and one geocode call issues  *)
(* no GET on rejected input or a table hit and exactly one GET otherwise,  *)
(* also when that GET fails.                                               *)
C20_SingleAttempt ==
    /\ called \in {"fetch", "summary"} => http_gets = 1
    /\ g_called = "geocode" =>
           g_out.gets = (IF AnsweredLocally(g_query) THEN 0 ELSE 1)
    /\ g_called \in GeocodeMethods => g_out.gets <= 1 /\ g_out.api_calls <= 1

\* both upstreams timed out and each call had asked once
C20_Witness ==
    /\ called = "summary"
    /\ transport = "timeout"
    /\ http_gets = 1
    /\ g_called = "geocode"
    /\ g_net.kind = "timeout"
    /\ g_out.gets = 1
    /\ ~g_out.ret.v.success

----------------------------------------------------------------------------
\* the words of the messages that the summary and the weather API carry
WordsOf ==
    ("Failed to fetch lightning data from API" :>
         <<"Failed", "to", "fetch", "lightning", "data", "from", "API">>)
    @@ ("Failed to parse lightning data" :>
         <<"Failed", "to", "parse", "lightning", "data">>)
    @@ ("API Error" :> <<"API", "Error">>)

\* text occurs in message
Includes(message, text) ==
    \E i \in 0..(Len(WordsOf[message]) - Len(WordsOf[text])) :
        SubSeq(WordsOf[message], i + 1, i + Len(WordsOf[text])) = WordsOf[text]

\* the fetched batch is a non-empty object with a status code other than 0
NonSuccessBatch ==
    /\ transport = "ok"
    /\ api_response.t = "obj"
    /\ ~ResponseFalsy(api_response)
    /\ api_response.code # SuccessCode

\* the batch carries an error text of its own
HasEmbeddedError(r) == r.errorMsg.t = "str" /\ r.errorMsg.s # ""

(* C21: when parsing fails because the batch carries a non-success status  *)
(* code, the failure result of get_lightning_summary has an error message  *)
(* distinct from the fetch-failure message, and that message includes the  *)
(* batch's own embedded error text whenever the batch has one.             *)
C21_ParseFailureCarriesEmbeddedError ==
    (called = "summary" /\ NonSuccessBatch) =>
        /\ summary.k = "ok"
        /\ ~summary.v.success
        /\ summary.v.error # FetchFailure.error
        /\ HasEmbeddedError(api_response) =>
               Includes(summary.v.error, api_response.errorMsg.s)

----------------------------------------------------------------------------
\* the value a JSON object has under a key, or the fallback when it lacks the key
OwnOr(v, fallback) == IF v.t = "missing" THEN fallback ELSE v

\* the raw readings of a period that the parser keeps, in order
KeptReadings(period) == SelectSeq(InputReadings(period), Coercible)

\* the observation type of a period, absent when the period has no item
OwnObservationType(period) ==
    IF period.item.t = "obj" THEN period.item.type ELSE Missing

\* the output record out carries the fields of the period and of its kept readings
CarriesFields(period, kept, out) ==
    /\ out.observation_type = OwnOr(OwnObservationType(period), JStr("unknown"))
    /\ Len(out.readings) = Len(kept)
    /\ \A j \in DOMAIN out.readings :
         /\ out.readings[j].type = OwnOr(kept[j].type, JStr("Unknown"))
         /\ out.readings[j].description = OwnOr(kept[j].text, JStr("Unknown"))
         /\ out.readings[j].datetime = OwnOr(kept[j].datetime, JNull)
         /\ out.readings[j].record_datetime = OwnOr(period.datetime, JNull)
         /\ out.readings[j].record_datetime = out.datetime

(* C22: every StrikeRecord produced by parse_lightning_response has a type *)
(* and a description that are the reading's own values, or the string      *)
(* "Unknown" when the reading lacks them, a reading timestamp that is null *)
(* when absent, and a record_datetime equal to the timestamp of the period *)
(* that owns it; every period record has observation type "unknown" when   *)
(* the period lacks one.                                                   *)
C22_StrikeRecordFields ==
    parsed.k = "ok" =>
        /\ Len(parsed.v.records) = Len(InputPeriods(api_response))
        /\ \A i \in DOMAIN parsed.v.records :
               CarriesFields(InputPeriods(api_response)[i],
                             KeptReadings(InputPeriods(api_response)[i]),
                             parsed.v.records[i])

\* a period without a type and a timestamp whose first reading has its own
\* type, text and timestamp and whose second reading has none of them
C22_Witness ==
    /\ parsed.k = "ok"
    /\ Len(parsed.v.records) = 1
    /\ InputPeriods(api_response)[1].item.type = Missing
    /\ InputPeriods(api_response)[1].datetime = Missing
    /\ parsed.v.records[1].observation_type = JStr("unknown")
    /\ Len(parsed.v.records[1].readings) = 2
    /\ parsed.v.records[1].readings[1].type = JStr("C")
    /\ parsed.v.records[1].readings[1].datetime = JStr(T0)
    /\ InputReadings(InputPeriods(api_response)[1])[2].type = Missing
    /\ parsed.v.records[1].readings[2].type = JStr("Unknown")
    /\ parsed.v.records[1].readings[2].description = JStr("Unknown")
    /\ parsed.v.records[1].readings[2].datetime = JNull
    /\ parsed.v.records[1].readings[2].record_datetime = JNull

----------------------------------------------------------------------------
\* the item of a period, the empty one when the period has none
OwnItem(period) == IF period.item.t = "obj" THEN period.item ELSE EmptyItem

\* the output record out holds the metadata of the period
CarriesMetadata(period, item, out) ==
    /\ out.datetime = OwnOr(period.datetime, JNull)
    /\ out.updated_timestamp = OwnOr(period.updatedTimestamp, JNull)
    /\ out.is_station_data = OwnOr(item.isStationData, JBool(FALSE))
    /\ out.observation_type = OwnOr(item.type, JStr("unknown"))
    /\ out.readings_count = Len(InputReadings(period))

(* C23: parse_lightning_response preserves the delivery order and the      *)
(* count of periods: the output records list has exactly one entry per     *)
(* input period, in input order (never re-sorted), and the metadata of a   *)
(* period is recorded whether or not the period has readings, also when    *)
(* all of its readings are dropped.                                        *)
C23_PeriodsKeptInOrder ==
    parsed.k = "ok" =>
        /\ Len(parsed.v.records) = Len(InputPeriods(api_response))
        /\ \A i \in DOMAIN parsed.v.records :
               CarriesMetadata(InputPeriods(api_response)[i],
                               OwnItem(InputPeriods(api_response)[i]),
                               parsed.v.records[i])

\* two periods delivered latest first, the first with its only reading
\* dropped and the second with no reading, both recorded in that order
C23_Witness ==
    /\ parsed.k = "ok"
    /\ Len(InputPeriods(api_response)) = 2
    /\ Len(InputReadings(InputPeriods(api_response)[1])) = 1
    /\ NonNumeric(InputReadings(InputPeriods(api_response)[1])[1])
    /\ InputReadings(InputPeriods(api_response)[2]) = <<>>
    /\ Len(parsed.v.records) = 2
    /\ parsed.v.records[1].datetime = JStr(T2)
    /\ parsed.v.records[1].readings = <<>>
    /\ parsed.v.records[1].readings_count = 1
    /\ parsed.v.records[2].datetime = JStr(T1)

----------------------------------------------------------------------------
\* the sleeps due once calls of the n geocode calls have returned: one after
\* each call that has a successor
SleepsDue(calls, n) == IF calls < n THEN calls ELSE n - 1

(* C24: batch_geocode enforces the fixed delay between successive calls    *)
(* only: for n queries it sleeps exactly max(n-1, 0) times, once after     *)
(* each geocode call that has a successor and before that successor        *)
(* starts, never before the first call or after the last, and the delay    *)
(* applies whether the preceding call succeeded, failed, or was resolved   *)
(* without any network request.                                            *)
C24_SleepsBetweenCallsOnly ==
    /\ t_status = "running" /\ t_in # <<>> =>
           t_sleeps = SleepsDue(Len(t_results), Len(t_in))
    /\ BatchEnded =>
           t_sleeps = (IF Len(t_in) = 0 THEN 0 ELSE Len(t_in) - 1)

----------------------------------------------------------------------------
\* the kind of an error text of a GeoResult, whatever its wording
ErrorKind(error) ==
    CASE error = JNull -> "none"
      [] error \in {NotFoundErrors[p] : p \in DOMAIN NotFoundErrors} -> "not found"
      [] error = JStr("Failed to extract valid coordinates") -> "invalid coordinates"
      [] error = JStr("Invalid postal code format") -> "invalid format"
      [] OTHER -> "invalid input"

\* what a sub-path built, apart from query_type, the wording of the error and
\* the time of the call
Assembled(out) ==
    IF out.ret.k # "ok" THEN out.ret
    ELSE Ok([out.ret.v EXCEPT !.query_type = "", !.error = ErrorKind(@),
                              !.timestamp = ""])

\* what a sub-path built, apart from the postal code as well
AssembledApartFromPostalCode(out) ==
    IF out.ret.k # "ok" THEN out.ret
    ELSE Ok([out.ret.v EXCEPT !.query_type = "", !.error = ErrorKind(@),
                              !.timestamp = "", !.postal_code = JNull])

\* the three sub-paths accept the query and their lookups end alike
SameLookup(query, net) ==
    /\ ~BlankOrNotStr(query)
    /\ clean_postal_code(query).k = "ok"
    /\ _make_api_call(clean_postal_code(query).v, net).ret
           = _make_api_call(strip(query.chars), net).ret

\* a sub-path was called on a query and a reply that give the same lookup
\* outcome on all three
SubPathCalled ==
    /\ g_called \in {"geocode_postal_code", "geocode_address", "geocode_building"}
    /\ SameLookup(g_query, g_net)

AgreeApartFromPostalCode(out, postal, address, building, cleaned) ==
    /\ Assembled(address) = Assembled(building)
    /\ postal.ret.k = "ok" => postal.ret.v.postal_code = Text(cleaned.v)
    /\ address.ret.k = "ok" =>
           /\ AssembledApartFromPostalCode(address)
                  = AssembledApartFromPostalCode(postal)
           /\ AssembledApartFromPostalCode(out)
                  = AssembledApartFromPostalCode(postal)
           /\ address.ret.v.postal_code # JNull =>
                  /\ address.ret.v.success
                  /\ address.ret.v.address.t = "text"
                  /\ re_search_postal(address.ret.v.address.chars)
                         = Ok(address.ret.v.postal_code.chars)
    /\ address.ret.k = "raise" =>
           \/ postal.ret = address.ret
           \/ /\ address.ret = Raise("TypeError")
              /\ postal.ret.k = "ok"
              /\ postal.ret.v.success
              /\ postal.ret.v.address.t # "text"

----------------------------------------------------------------------------
\* where chars has six digits in a row with no character of around beside them
RunStarts(chars, around) ==
    {i \in 1..(Len(chars) - 5) :
        /\ \A h \in i..(i + 5) : chars[h] \in Digits
        /\ i > 1 => chars[i - 1] \notin around
        /\ i + 6 <= Len(chars) => chars[i + 6] \notin around}

\* the first such run of an address value, null when it has none
FirstRun(address, around) ==
    IF address.t # "text" \/ RunStarts(address.chars, around) = {} THEN JNull
    ELSE Text(SubSeq(address.chars,
                     CHOOSE i \in RunStarts(address.chars, around) :
                         \A h \in RunStarts(address.chars, around) : i <= h,
                     (CHOOSE i \in RunStarts(address.chars, around) :
                         \A h \in RunStarts(address.chars, around) : i <= h) + 5))

\* a geocoding call returned a found result with usable coordinates
FoundUsable ==
    /\ g_called \in GeocodeMethods
    /\ g_out.ret.k = "ok"
    /\ g_out.ret.v.success

----------------------------------------------------------------------------
\* get_lightning_summary returned a successful result
SummarySucceeded ==
    /\ called = "summary"
    /\ summary.k = "ok"
    /\ summary.v.success

(* C27: in every successful result of get_lightning_summary, the number of *)
(* entries of coordinates equals total_strikes, raw_records_count equals   *)
(* the number of periods of the fetched batch, and records_with_lightning  *)
(* is at most raw_records_count.                                           *)
C27_SummaryCountsAgree ==
    SummarySucceeded =>
        /\ Len(summary.v.coordinates) = summary.v.total_strikes
        /\ summary.v.raw_records_count = Len(InputPeriods(api_response))
        /\ summary.v.records_with_lightning <= summary.v.raw_records_count

\* a batch of two periods, one of them without readings, with one reading
\* kept and one dropped
C27_Witness ==
    /\ SummarySucceeded
    /\ summary.v.raw_records_count = 2
    /\ summary.v.records_with_lightning = 1
    /\ summary.v.total_strikes = 1
    /\ Len(summary.v.coordinates) = 1
    /\ \E i \in 1..2 : Len(InputReadings(InputPeriods(api_response)[i])) = 2

----------------------------------------------------------------------------
\* a coordinate value that is present and does not coerce to a number
FailsCoercion(v) ==
    /\ v.t # "missing"
    /\ v.t # "num"
    /\ ~(v.t = "str" /\ v.s \in DOMAIN FloatOfStr)

\* the number a coordinate value stands for, 0 when it is absent
AxisOr0(v) == IF v.t = "missing" THEN 0 ELSE NumberOf(v)

\* a reading one of whose present coordinates fails coercion
HasFailingAxis(reading) ==
    /\ reading.location.t = "obj"
    /\ \/ FailsCoercion(reading.location.latitude)
       \/ FailsCoercion(reading.location.longitude)
Emitted(reading) == ~HasFailingAxis(reading)

\* a reading that lacks the location, the latitude or the longitude
LacksAxis(reading) ==
    \/ reading.location.t = "missing"
    \/ /\ reading.location.t = "obj"
       /\ \/ reading.location.latitude.t = "missing"
          \/ reading.location.longitude.t = "missing"

\* the coordinate pair of an emitted reading
PairOrDefault(reading) ==
    IF reading.location.t = "missing" THEN <<0, 0>>
    ELSE <<AxisOr0(reading.location.latitude), AxisOr0(reading.location.longitude)>>

\* the readings of the output record are the emitted raw readings, in order
EmitsAllButFailing(raw, out) ==
    /\ Len(out) = Len(SelectSeq(raw, Emitted))
    /\ \A j \in DOMAIN out :
           <<out[j].latitude, out[j].longitude>>
               = PairOrDefault(SelectSeq(raw, Emitted)[j])

(* C28: in parse_lightning_response, a reading whose location lacks the    *)
(* latitude key or the longitude key (or that has no location object at    *)
(* all) is not dropped: the missing axis defaults to 0 and the reading is  *)
(* emitted as a StrikeRecord and counted in total_strikes; only a present  *)
(* value that fails numeric coercion (non-numeric string or null) drops    *)
(* the reading.                                                            *)
C28_MissingAxisDefaultsToZero ==
    parsed.k = "ok" =>
        /\ Len(parsed.v.records) = Len(InputPeriods(api_response))
        /\ \A i \in DOMAIN parsed.v.records :
               EmitsAllButFailing(InputReadings(InputPeriods(api_response)[i]),
                                  parsed.v.records[i].readings)
        /\ parsed.v.total_strikes
               = SumSeq([i \in DOMAIN parsed.v.records |->
                            Len(SelectSeq(InputReadings(InputPeriods(api_response)[i]),
                                          Emitted))])

\* a period of two readings: the one without a latitude is emitted at
\* latitude 0 and counted, the one with a null longitude is dropped
C28_Witness ==
    /\ parsed.k = "ok"
    /\ Len(parsed.v.records) = 1
    /\ Len(InputReadings(InputPeriods(api_response)[1])) = 2
    /\ \E j \in 1..2 :
           /\ LacksAxis(InputReadings(InputPeriods(api_response)[1])[j])
           /\ InputReadings(InputPeriods(api_response)[1])[j].location.t = "obj"
           /\ InputReadings(InputPeriods(api_response)[1])[j].location.latitude
                  = Missing
           /\ HasFailingAxis(InputReadings(InputPeriods(api_response)[1])[3 - j])
    /\ Len(parsed.v.records[1].readings) = 1
    /\ parsed.v.records[1].readings[1].latitude = 0
    /\ parsed.v.records[1].readings[1].longitude = 103819800
    /\ parsed.v.total_strikes = 1

----------------------------------------------------------------------------
\* geocode was called on a text with exactly six digit characters in all
GeocodedSixDigits ==
    /\ g_called = "geocode"
    /\ g_query.t = "text"
    /\ DigitCount(g_query.chars) = 6

(* C29: geocode() routes to the postal-code path every query whose digit   *)
(* characters number exactly six in total, contiguous or not and whatever  *)
(* other text surrounds them: the lookup key is the concatenation of those *)
(* digits, and an address whose only digits are its six-digit postal code  *)
(* gets query_type postal_code, never address.                             *)
C29_SixDigitsInAllGoPostal ==
    GeocodedSixDigits =>
        /\ g_out.api_calls = 1
        /\ g_out.searchVal = Text(DigitsOf(g_query.chars))
        /\ g_out.ret.k = "ok" =>
               /\ g_out.ret.v.query_type = "postal_code"
               /\ g_out.ret.v.postal_code = Text(DigitsOf(g_query.chars))

\* six digits split by other text: looked up as the six digits in a row
C29_Witness ==
    /\ GeocodedSixDigits
    /\ ~HasSixDigitRun(g_query.chars)
    /\ \E i \in DOMAIN g_query.chars : g_query.chars[i] \in Letters
    /\ g_out.ret.k = "ok"
    /\ g_out.ret.v.query_type = "postal_code"
    /\ Len(g_out.searchVal.chars) = 6
    /\ g_out.searchVal.chars # g_query.chars

----------------------------------------------------------------------------
\* the page shows the strikes of data: one marker per coordinate entry, in
\* order, and none when data is a failure
RenderedFrom(map_html, data) ==
    /\ map_html.t = "html"
    /\ Len(map_html.markers) = (IF data.success THEN Len(data.coordinates) ELSE 0)
    /\ \A i \in DOMAIN map_html.markers :
           /\ map_html.markers[i].lat = data.coordinates[i].latitude
           /\ map_html.markers[i].lng = data.coordinates[i].longitude
           /\ map_html.markers[i].type = data.coordinates[i].type
           /\ map_html.markers[i].description = data.coordinates[i].description
           /\ map_html.markers[i].datetime = data.coordinates[i].datetime

\* the three fields of the slot are all null, or all set with the map that of
\* the data
CacheConsistent ==
    \/ /\ w_cache.last_update = JNull
       /\ w_cache.data = JNull
       /\ w_cache.map_html = JNull
    \/ /\ w_cache.last_update # JNull
       /\ w_cache.data # JNull
       /\ w_cache.map_html # JNull
       /\ RenderedFrom(w_cache.map_html, w_cache.data)

(* C30: after every completed request, in any sequence of requests to the  *)
(* web layer, the cache slot is consistent: last_update, data and map_html *)
(* are either all null or all non-null, map_html is the map rendered from  *)
(* the coordinates of the cached data (the empty map when the cached data  *)
(* is a failure), only the page and refresh endpoints ever write the slot, *)
(* and the JSON data, status, health and map-only endpoints leave it       *)
(* unchanged.                                                              *)
C30_CacheSlotConsistent ==
    /\ []CacheConsistent
    /\ [][/\ w_cache' # w_cache => (Index \/ RefreshLightningData)
          /\ (GetLightningData \/ GetStatus \/ HealthCheck \/ MapOnly)
                 => w_cache' = w_cache]_vars

\* after an earlier success the slot holds a failure with the empty map
C30_Witness ==
    /\ w_requests >= 2
    /\ w_good.k = "ok"
    /\ w_cache.data # JNull
    /\ ~w_cache.data.success
    /\ w_cache.last_update # JNull
    /\ w_cache.map_html = create_singapore_map(<<>>)
    /\ w_good.v.map_html # w_cache.map_html

====
